---- MODULE Spec2Model ----
(***************************************************************************)
(* codepencil: the execution bridge (src/lib/py.ts) and the Pyodide worker *)
(* (src/workers/py.worker.ts) as a state machine.                           *)
(*                                                                         *)
(* Spec        the bridge together with the worker and the two message     *)
(*             queues between them (both FIFO, as postMessage delivers).   *)
(* BridgeSpec  the bridge alone against an arbitrary responder: any        *)
(*             response message may arrive at any time (unknown ids,       *)
(*             duplicates, late and reordered responses).                  *)
(*                                                                         *)
(* StorageSpec the project storage (lib/storage with lib/svg): saveProject  *)
(*             step by step, exportProjectAsZip, loadProject and           *)
(*             importProjectFromZip on a directory and an archive that     *)
(*             may change between two operations.                          *)
(*                                                                         *)
(* CodecSpec   lib/svg: strokesToSvg and svgToStrokes applied to sample    *)
(*             strokes, the document possibly changed in between.           *)
(* CanvasSpec  components/InkCanvas.tsx: the pointer event handlers under  *)
(*             any sequence of events of a mouse, a pen and a touch.       *)
(* ResaveSpec  saveProject into a directory that holds an earlier project, *)
(*             followed by loadProject.                                    *)
(*                                                                         *)
(* Texts (stdout, stderr) are sequences of chunks; "" is <<>>.             *)
(***************************************************************************)
EXTENDS Integers, Sequences, FiniteSets, TLC

\* ------------------------------------------------------------- bounds
\* runPython calls in one behaviour
MaxReq == 2
\* response messages the arbitrary responder of BridgeSpec sends
MaxInject == 3
\* cells in a notebook that is saved or exported
MaxCells == 2
\* changes made to the directory and the archive from outside
MaxEdits == 1
\* strokes in a list that is encoded
MaxStrokes == 2
\* changes made to an encoded document before it is decoded
MaxSvgEdits == 1
\* pointer events the canvas handles
MaxEvents == 3

VARIABLES
    \* ---- src/lib/py.ts
    worker,             \* 0 = null, else the number of the Worker object held
    pending,            \* the Map: token -> index of the promise whose resolve it holds
    reqId,              \* the counter
    promise,            \* promise[k]: the promise returned by the k-th runPython call
    \* ---- the two message queues
    inbox,              \* request messages posted to the worker, not yet handled
    outbox,             \* response messages posted by the worker, not yet handled
    \* ---- src/workers/py.worker.ts
    pyodide,            \* 0 = null, else the interpreter instance held
    py,                 \* the Python-side state of the instance `pyodide` names
    bufs,               \* the StringIO pairs of that instance, by creating handler
    handlers,           \* handlers[h]: the h-th invocation of onmessage
    \* ---- history (no counterpart in the code)
    workersConstructed, \* completed `new Worker(...)` evaluations
    sentTo,             \* sentTo[i]: the Worker the i-th posted request went to
    postTried,          \* tokens for which getWorker().postMessage was evaluated
    resolveLog,         \* resolveLog[k]: the deliveries that called promise k's resolve
    nDelivered,         \* response messages handled by worker.onmessage so far
    lastMsg,            \* the last response message handled
    loadCalls,          \* loadPyodide() calls so far
    posted,             \* posted[h]: the responses handler h posted
    \* ---- lib/storage
    nb,                 \* the notebook, stroke width and canvas width of the caller
    disk,               \* the directory the user grants: path -> [text, ok]
    archive,            \* the archive file the user has: path -> [text, ok]
    save,               \* the saveProject call: where it is, and (history) what it did
    exported,           \* the result of exportProjectAsZip and (history) what it packed
    opened,             \* the last loadProject or importProjectFromZip call: its result and
                        \* (history) what it caught, and whether it got at the members
    edits,              \* changes made from outside so far
    \* ---- lib/svg
    codecIn,            \* the arguments of strokesToSvg
    svgText,            \* the document at hand
    decoded,            \* << >>, or <<the result of svgToStrokes>>
    svgEdits,           \* changes made to the document so far
    \* ---- components/InkCanvas.tsx
    canvasStrokes,      \* the `strokes` prop: the strokes of the cell
    tool,               \* the `tool` prop
    drawing,            \* drawingRef.current
    activeStroke,       \* activeStrokeRef.current
    activePointerId,    \* activePointerIdRef.current, 0 = null
    downTool,           \* (history) the tool at the last pointer down that began a contact
    ev,                 \* (history) the last event: its type, its pointer, whether it passed
                        \* the guards of its handler
    nEvents,            \* pointer events handled so far
    \* ---- lib/groq
    groq,               \* the convertHandwritingToPython call: where it is, lastErr, and
                        \* (history) its attempts and waits
    \* ---- components/NotebookClient.tsx
    nbState,            \* the state of useReducer(reducer, emptyNotebook)
    nextId,             \* ids handed out by id() so far
    lastAction,         \* (history) the action dispatched last
    nDispatched,        \* actions dispatched so far
    localStorage,       \* localStorage[STORAGE_KEY]: << >> (null) or <<text>>
    tasks,              \* the convertCell and runCell calls made on this page
    mounted,            \* loadedRef.current
    saveTimer,          \* the timer of the autosave effect: << >> or <<savePayload>>
    cleared             \* (history) the cells cleared with no Convert or Run begun since

bridgeVars == <<worker, pending, reqId, promise, workersConstructed, sentTo,
                postTried, resolveLog, nDelivered, lastMsg>>
workerVars == <<pyodide, py, bufs, handlers, loadCalls, posted>>
storageVars == <<nb, disk, archive, save, exported, opened, edits>>
pyVars == <<bridgeVars, inbox, outbox, workerVars>>
codecVars == <<codecIn, svgText, decoded, svgEdits>>
canvasVars == <<canvasStrokes, tool, drawing, activeStroke, activePointerId, downTool, ev,
                nEvents>>
clientVars == <<nbState, nextId, lastAction, nDispatched, localStorage, tasks, mounted,
                saveTimer, cleared>>
appVars == <<groq, clientVars>>
vars == <<pyVars, storageVars, codecVars, canvasVars, appVars>>

\* ------------------------------------------------------------- values

\* String(n) of a non-negative integer: its decimal digits, most significant first.
RECURSIVE String(_)
String(n) == IF n < 10 THEN <<n>> ELSE String(n \div 10) \o <<n % 10>>

\* The programs callers submit. A program is a sequence of steps: write a text
\* to sys.stdout, await something that completes in a later task, or raise.
Write(t) == [op |-> "write", text |-> t]
Await    == [op |-> "await", text |-> ""]
Raise(t) == [op |-> "raise", text |-> t]
Codes == { <<Write("a")>>,
           <<Write("b"), Await, Write("b")>>,
           <<Await, Raise("E")>> }

NoMsg == [id |-> <<>>, stdout |-> <<>>, stderr |-> <<>>]

\* ------------------------------------------------------------- promises

NewPromise(id) ==
    [token |-> id, state |-> "pending", stdout |-> <<>>, stderr |-> <<>>, reason |-> ""]

\* Calling the resolve function of a promise: settles it if it is still
\* pending, and does nothing otherwise.
Resolved(p, out, err) ==
    IF p.state = "pending"
    THEN [p EXCEPT !.state = "resolved", !.stdout = out, !.stderr = err]
    ELSE p

\* A throw inside the executor of `new Promise` rejects the promise.
Rejected(p, why) ==
    IF p.state = "pending" THEN [p EXCEPT !.state = "rejected", !.reason = why] ELSE p

\* ------------------------------------------------------------- src/lib/py.ts

\* Map.set
MapSet(m, key, v) == [x \in DOMAIN m \cup {key} |-> IF x = key THEN v ELSE m[x]]
\* Map.delete
MapDelete(m, key) == [x \in DOMAIN m \ {key} |-> m[x]]

\* The frame of worker.onmessage: what it never touches.
OnMessageFrame(data) ==
    /\ nDelivered' = nDelivered + 1
    /\ lastMsg' = data
    /\ UNCHANGED <<worker, reqId, workersConstructed, sentTo, postTried>>

\* worker.onmessage without `pending.delete(e.data.id)`
OnMessageKeep(data) ==
    /\ OnMessageFrame(data)
    /\ IF data.id \in DOMAIN pending
       THEN LET k == pending[data.id] IN
            /\ promise' = [promise EXCEPT ![k] = Resolved(@, data.stdout, data.stderr)]
            /\ resolveLog' = [resolveLog EXCEPT ![k] = Append(@, [n |-> nDelivered + 1, msg |-> data])]
            /\ UNCHANGED pending
       ELSE UNCHANGED <<pending, promise, resolveLog>>

\* The entry pending holds for the request issued first.
OldestKey == CHOOSE x \in DOMAIN pending : \A y \in DOMAIN pending : pending[x] <= pending[y]

\* worker.onmessage that answers the requests in the order they were made:
\* a response for a pending token resolves the oldest pending entry.
OnMessageFifo(data) ==
    /\ OnMessageFrame(data)
    /\ IF data.id \in DOMAIN pending
       THEN LET k == pending[OldestKey] IN
            /\ pending' = MapDelete(pending, OldestKey)
            /\ promise' = [promise EXCEPT ![k] = Resolved(@, data.stdout, data.stderr)]
            /\ resolveLog' = [resolveLog EXCEPT ![k] = Append(@, [n |-> nDelivered + 1, msg |-> data])]
       ELSE UNCHANGED <<pending, promise, resolveLog>>

\* worker.onmessage that falls back to the oldest pending entry when the id
\* of the response is not in the map.
OnMessageOldest(data) ==
    /\ OnMessageFrame(data)
    /\ IF pending # << >>
       THEN LET key == IF data.id \in DOMAIN pending THEN data.id ELSE OldestKey
                k   == pending[key] IN
            /\ pending' = MapDelete(pending, key)
            /\ promise' = [promise EXCEPT ![k] = Resolved(@, data.stdout, data.stderr)]
            /\ resolveLog' = [resolveLog EXCEPT ![k] = Append(@, [n |-> nDelivered + 1, msg |-> data])]
       ELSE UNCHANGED <<pending, promise, resolveLog>>

\* worker.onmessage with e.data = data
OnMessage(data) ==
    /\ nDelivered' = nDelivered + 1
    /\ lastMsg' = data
    /\ IF data.id \in DOMAIN pending
       THEN LET k == pending[data.id] IN
            /\ pending' = MapDelete(pending, data.id)
            /\ promise' = [promise EXCEPT ![k] = Resolved(@, data.stdout, data.stderr)]
            /\ resolveLog' = [resolveLog EXCEPT ![k] = Append(@, [n |-> nDelivered + 1, msg |-> data])]
       ELSE UNCHANGED <<pending, promise, resolveLog>>
    /\ UNCHANGED <<worker, reqId, workersConstructed, sentTo, postTried>>

\* reqId read without the increment
SameReqId(n) == n

\* ++reqId
NextReqId(n) == n + 1

\* getWorker() without `if (worker) return worker`
GetWorkerNoCache(ok) ==
    IF ok THEN [w |-> workersConstructed + 1, made |-> TRUE] ELSE [w |-> 0, made |-> FALSE]

\* getWorker(): `ok` says whether `new Worker(...)` completes (it is evaluated
\* only while worker is null). The result is the Worker to post to, 0 on a throw.
\* `made` says whether this call constructed it.
GetWorker(ok) ==
    IF worker # 0 THEN [w |-> worker, made |-> FALSE]
    ELSE IF ok THEN [w |-> workersConstructed + 1, made |-> TRUE]
    ELSE [w |-> 0, made |-> FALSE]

\* runPython(code): ctorOk and postOk say whether `new Worker` and postMessage
\* complete or throw.
RunPython(code, ctorOk, postOk) ==
    LET n  == NextReqId(reqId)
        id == String(n)
        k  == Len(promise) + 1
        g  == GetWorker(ctorOk)
        w  == g.w
    IN  /\ Len(promise) < MaxReq
        /\ reqId' = n
        /\ pending' = MapSet(pending, id, k)
        /\ resolveLog' = Append(resolveLog, <<>>)
        /\ worker' = IF w # 0 THEN w ELSE worker
        /\ workersConstructed' = IF g.made THEN workersConstructed + 1 ELSE workersConstructed
        /\ postTried' = IF w # 0 THEN postTried \cup {id} ELSE postTried
        /\ IF w = 0
           THEN /\ promise' = Append(promise, Rejected(NewPromise(id), "new Worker threw"))
                /\ UNCHANGED <<inbox, sentTo>>
           ELSE IF ~postOk
           THEN /\ promise' = Append(promise, Rejected(NewPromise(id), "postMessage threw"))
                /\ UNCHANGED <<inbox, sentTo>>
           ELSE /\ promise' = Append(promise, NewPromise(id))
                /\ inbox' = Append(inbox, [id |-> id, code |-> code])
                /\ sentTo' = Append(sentTo, w)
        /\ UNCHANGED <<nDelivered, lastMsg>>

Call ==
    /\ \E code \in Codes, ctorOk \in BOOLEAN, postOk \in BOOLEAN :
          RunPython(code, ctorOk, postOk)
    /\ UNCHANGED <<outbox, workerVars, storageVars, codecVars, canvasVars, appVars>>

\* ------------------------------------------------------------- src/workers/py.worker.ts

\* A new interpreter instance: nothing loaded, no name bound, sys.stdout and
\* sys.stderr the original streams (sys = 0), _stdout/_stderr unbound (g = 0).
FreshPy == [pkgs |-> FALSE, names |-> FALSE, g |-> 0, sys |-> 0]

\* handlers[h].ov (history): h was in progress while another handler was.
Overlapped(hs) == [x \in DOMAIN hs |-> [hs[x] EXCEPT !.ov = @ \/ hs[x].pc # "done"]]

NewHandler(m, pc, inst) ==
    [id |-> m.id, code |-> m.code, pc |-> pc, pos |-> 0, inst |-> inst, fault |-> "",
     err |-> "", ov |-> \E x \in DOMAIN handlers : handlers[x].pc # "done"]

\* postMessage(msg) by handler h
PostMessage(h, hs, msg) ==
    /\ handlers' = hs
    /\ outbox' = Append(outbox, msg)
    /\ posted' = [x \in 1..Len(hs) |->
                    IF x = h THEN (IF x \in DOMAIN posted THEN posted[x] ELSE <<>>) \o <<msg>>
                    ELSE IF x \in DOMAIN posted THEN posted[x] ELSE <<>>]

\* The catch branch of onmessage: postMessage({ id, stdout: "", stderr: String(err) })
PostError(h, hs, err) ==
    PostMessage(h, [hs EXCEPT ![h].pc = "done", ![h].err = err],
                [id |-> hs[h].id, stdout |-> <<>>, stderr |-> <<err>>])

\* run(), from the return of `await init()` to the call of runPythonAsync:
\* the first runPython binds _stdout/_stderr to two new StringIO objects and
\* points sys.stdout/sys.stderr at them. It needs the names StringIO and sys,
\* which only the imports at the end of init() bind.
StartRun(h, hs, p) ==
    IF ~p.names
    THEN /\ py' = p
         /\ UNCHANGED bufs
         /\ PostError(h, hs, "NameError")
    ELSE /\ py' = [p EXCEPT !.g = h, !.sys = h]
         /\ bufs' = MapSet(bufs, h, [out |-> <<>>, err |-> <<>>])
         /\ handlers' = [hs EXCEPT ![h].pc = "running", ![h].inst = pyodide]
         /\ posted' = [x \in 1..Len(hs) |-> IF x \in DOMAIN posted THEN posted[x] ELSE <<>>]
         /\ UNCHANGED outbox

\* onmessage, up to the first await that waits for another task: with the
\* interpreter there, init() returns at once and run() goes on to
\* runPythonAsync; without it, importScripts runs (importOk: it completes) and
\* loadPyodide() is called.
Receive(importOk) ==
    /\ inbox # << >>
    /\ LET m  == Head(inbox)
           h  == Len(handlers) + 1
       IN  /\ inbox' = Tail(inbox)
           /\ IF pyodide # 0
              THEN /\ StartRun(h, Append(Overlapped(handlers), NewHandler(m, "start", pyodide)), py)
                   /\ UNCHANGED <<pyodide, loadCalls>>
              ELSE IF importOk
              THEN /\ loadCalls' = loadCalls + 1
                   /\ handlers' = Append(Overlapped(handlers), NewHandler(m, "awaitLoad", 0))
                   /\ posted' = Append(posted, <<>>)
                   /\ UNCHANGED <<pyodide, py, bufs, outbox>>
              ELSE /\ PostError(h, Append(Overlapped(handlers), NewHandler(m, "start", 0)), "NetworkError")
                   /\ UNCHANGED <<pyodide, py, bufs, loadCalls>>
    /\ UNCHANGED <<bridgeVars, storageVars, codecVars, canvasVars, appVars>>

\* `pyodide = await loadPyodide()` resumes: the call gave a new interpreter
\* instance (ok) or failed. Then pyodide.loadPackage is called.
LoadResolved(h, ok) ==
    /\ h \in DOMAIN handlers
    /\ handlers[h].pc = "awaitLoad"
    /\ IF ok
       THEN /\ pyodide' = h
            /\ py' = FreshPy
            /\ bufs' = << >>
            /\ handlers' = [handlers EXCEPT ![h].pc = "awaitPkg", ![h].inst = h]
            /\ UNCHANGED <<outbox, posted>>
       ELSE /\ PostError(h, handlers, "loadPyodide failed")
            /\ UNCHANGED <<pyodide, py, bufs>>
    /\ UNCHANGED <<bridgeVars, inbox, loadCalls, storageVars, codecVars, canvasVars, appVars>>

\* `await pyodide.loadPackage(...)` resumes (ok: the packages are now loaded in
\* the instance it was called on), then the imports run in the instance
\* `pyodide` names now: `import sys` and `from io import StringIO` bind their
\* names, `import numpy` throws unless that instance has the packages. init()
\* returns and run() goes on to runPythonAsync.
PkgResolved(h, ok) ==
    /\ h \in DOMAIN handlers
    /\ handlers[h].pc = "awaitPkg"
    /\ IF ~ok
       THEN /\ PostError(h, handlers, "loadPackage failed")
            /\ UNCHANGED <<py, bufs>>
       ELSE LET p1 == [py EXCEPT !.pkgs = @ \/ handlers[h].inst = pyodide, !.names = TRUE]
            IN  IF ~p1.pkgs
                THEN /\ py' = p1
                     /\ UNCHANGED bufs
                     /\ PostError(h, handlers, "ModuleNotFoundError")
                ELSE StartRun(h, handlers, p1)
    /\ UNCHANGED <<bridgeVars, inbox, pyodide, loadCalls, storageVars, codecVars, canvasVars, appVars>>

\* The steps of a program from position pos up to its next await, its end or
\* its raise: the texts written, the new position and how the segment ended.
RECURSIVE RunSegment(_, _, _)
RunSegment(code, pos, out) ==
    IF pos = Len(code)
    THEN [pos |-> pos, out |-> out, end |-> "return", fault |-> ""]
    ELSE LET s == code[pos + 1] IN
         CASE s.op = "write" -> RunSegment(code, pos + 1, Append(out, s.text))
           [] s.op = "await" -> [pos |-> pos + 1, out |-> out, end |-> "await", fault |-> ""]
           [] s.op = "raise" -> [pos |-> pos + 1, out |-> out, end |-> "raise", fault |-> s.text]

\* The program of handler h runs up to its next await (runPythonAsync is still
\* pending) or to its end (runPythonAsync settles). What it writes goes to
\* what sys.stdout is at that moment, in the instance the program runs in.
RunStep(h) ==
    /\ h \in DOMAIN handlers
    /\ handlers[h].pc = "running"
    /\ LET r == RunSegment(handlers[h].code, handlers[h].pos, << >>) IN
        /\ bufs' = IF handlers[h].inst = pyodide /\ py.sys # 0
                   THEN [bufs EXCEPT ![py.sys].out = @ \o r.out]
                   ELSE bufs
        /\ handlers' = [handlers EXCEPT ![h].pos = r.pos, ![h].fault = r.fault,
                                        ![h].pc = IF r.end = "await" THEN "running" ELSE "settled"]
    /\ UNCHANGED <<bridgeVars, inbox, outbox, pyodide, py, loadCalls, posted, storageVars, codecVars, canvasVars, appVars>>

\* run() after `await pyodide.runPythonAsync(code)`: the catch block writes the
\* fault to sys.stderr, the two getvalue() calls read what _stdout and _stderr
\* name, sys.stdout/sys.stderr are set back, and onmessage posts the result.
\* Every runPython acts on the instance `pyodide` names now and throws a
\* NameError when a name it uses is not bound there.
Finish(h) ==
    /\ h \in DOMAIN handlers
    /\ handlers[h].pc = "settled"
    /\ LET fault == handlers[h].fault
           bufs1 == IF fault # "" /\ py.names /\ py.sys # 0
                    THEN [bufs EXCEPT ![py.sys].err = Append(@, fault)]
                    ELSE bufs
       IN  IF (fault # "" /\ ~py.names) \/ py.g = 0
           THEN /\ bufs' = bufs1
                /\ UNCHANGED py
                /\ PostError(h, handlers, "NameError")
           ELSE /\ bufs' = bufs1
                /\ py' = [py EXCEPT !.sys = 0]
                /\ PostMessage(h, [handlers EXCEPT ![h].pc = "done"],
                               [id |-> handlers[h].id, stdout |-> bufs1[py.g].out,
                                stderr |-> bufs1[py.g].err])
    /\ UNCHANGED <<bridgeVars, inbox, pyodide, loadCalls, storageVars, codecVars, canvasVars, appVars>>

\* The browser hands the next response message to worker.onmessage.
Deliver ==
    /\ outbox # << >>
    /\ OnMessage(Head(outbox))
    /\ outbox' = Tail(outbox)
    /\ UNCHANGED <<inbox, workerVars, storageVars, codecVars, canvasVars, appVars>>

\* ------------------------------------------------------------- project storage: values
\* (lib/storage and lib/svg.)  An optional value is << >> (undefined, or a
\* property that is absent) or <<v>>. A file name is the sequence of its
\* characters. Coordinates are in thousandths of a unit; widths and heights
\* are whole units.

\* a ?? b
Coalesce(opt, default) == IF opt = << >> THEN default ELSE opt[1]

\* The characters that occur in file names, in UTF-16 code unit order.
Alphabet == << "-", ".", "/", "0", "1", "2", "3", "4", "5", "6", "7", "8", "9",
               "a", "c", "e", "f", "g", "i", "j", "l", "m", "n", "o", "s", "t", "v" >>

\* The characters in the order String.prototype.localeCompare ranks them:
\* punctuation (- before . before /), then digits, then letters.
Collation == << "-", ".", "/" >> \o
             << "0", "1", "2", "3", "4", "5", "6", "7", "8", "9" >> \o
             << "a", "c", "e", "f", "g", "i", "j", "l", "m", "n", "o", "s", "t", "v" >>

\* The place of a character in an order.
Rank(order, ch) == CHOOSE i \in DOMAIN order : order[i] = ch

\* a < b for two strings, character by character under the given order; a
\* proper prefix comes first.
RECURSIVE StrLess(_, _, _)
StrLess(a, b, order) ==
    IF b = << >> THEN FALSE
    ELSE IF a = << >> THEN TRUE
    ELSE IF Head(a) # Head(b) THEN Rank(order, Head(a)) < Rank(order, Head(b))
    ELSE StrLess(Tail(a), Tail(b), order)

\* names.sort(compare) for a set of distinct names: ascending under the order
\* the comparison goes by (Collation for a.localeCompare(b), Alphabet for the
\* default comparison by code units).
RECURSIVE SortNames(_, _)
SortNames(names, order) ==
    IF names = {} THEN << >>
    ELSE LET first == CHOOSE x \in names : \A y \in names \ {x} : StrLess(x, y, order)
         IN  <<first>> \o SortNames(names \ {first}, order)

\* A sequence back to front.
Reversed(s) == [k \in 1..Len(s) |-> s[Len(s) + 1 - k]]

\* name.endsWith(suffix)
EndsWith(name, suffix) ==
    /\ Len(name) >= Len(suffix)
    /\ SubSeq(name, Len(name) - Len(suffix) + 1, Len(name)) = suffix

\* String(n) as characters
DigitChars(n) == [k \in 1..Len(String(n)) |-> Alphabet[String(n)[k] + 4]]

\* s.padStart(width, ch)
RECURSIVE PadStart(_, _, _)
PadStart(s, width, ch) == IF Len(s) >= width THEN s ELSE PadStart(<<ch>> \o s, width, ch)

SvgExt == << ".", "s", "v", "g" >>
ManifestName == << "m", "a", "n", "i", "f", "e", "s", "t", ".", "j", "s", "o", "n" >>

\* `cell-${String(i + 1).padStart(3, "0")}.svg` for the 0-based index i
FileName(i) == << "c", "e", "l", "l", "-" >> \o PadStart(DigitChars(i + 1), 3, "0") \o SvgExt

\* A numeral is what stands for a number in a text: << >> when it does not
\* parse (parseFloat gives NaN), else <<[neg, whole, cents]>>, the sign, the
\* whole part and two decimals.

\* v.toFixed(0) for v in thousandths
ToFixed0(v) ==
    LET a == IF v < 0 THEN -v ELSE v
    IN  << [neg |-> v < 0, whole |-> (a + 500) \div 1000, cents |-> 0] >>

\* v.toFixed(2) for v in thousandths: rounded to hundredths, the sign kept.
ToFixed2(v) ==
    LET a == IF v < 0 THEN -v ELSE v
        r == (a + 5) \div 10
    IN  << [neg |-> v < 0, whole |-> r \div 100, cents |-> r % 100] >>

\* `${n}` for a whole number n
Numeral(n) == << [neg |-> n < 0, whole |-> IF n < 0 THEN -n ELSE n, cents |-> 0] >>

\* isNaN(parseFloat(s))
IsNaN(s) == s = << >>

\* parseFloat(s) in thousandths, for a numeral that parses
ParseFloat(s) == (IF s[1].neg THEN -1 ELSE 1) * (s[1].whole * 1000 + s[1].cents * 10)

\* strokeToPathD writing a single point as a move-to alone
StrokeToPathDNoOffset(stroke) ==
    [k \in 1..Len(stroke) |->
        [c |-> IF k = 1 THEN "M" ELSE "L",
         x |-> ToFixed2(stroke[k].x), y |-> ToFixed2(stroke[k].y)]]

\* strokeToPathD with toFixed(0)
StrokeToPathDWhole(stroke) ==
    [k \in 1..Len(stroke) |->
        [c |-> IF k = 1 THEN "M" ELSE "L",
         x |-> ToFixed0(stroke[k].x), y |-> ToFixed0(stroke[k].y)]]

\* strokeToPathD: the commands of the d attribute ("" is << >>); a single
\* point gets a line to the point 0.1 further.
StrokeToPathD(stroke) ==
    IF Len(stroke) = 0 THEN << >>
    ELSE IF Len(stroke) = 1
    THEN << [c |-> "M", x |-> ToFixed2(stroke[1].x), y |-> ToFixed2(stroke[1].y)],
            [c |-> "L", x |-> ToFixed2(stroke[1].x + 100), y |-> ToFixed2(stroke[1].y + 100)] >>
    ELSE [k \in 1..Len(stroke) |->
            [c |-> IF k = 1 THEN "M" ELSE "L",
             x |-> ToFixed2(stroke[k].x), y |-> ToFixed2(stroke[k].y)]]

\* seq.filter(Boolean) for a sequence of path texts: "" is dropped.
RECURSIVE FilterNonEmpty(_)
FilterNonEmpty(s) ==
    IF s = << >> THEN << >>
    ELSE (IF Head(s) = << >> THEN << >> ELSE <<Head(s)>>) \o FilterNonEmpty(Tail(s))

\* strokesToSvg: the document, as the attributes of its svg element and the d
\* attributes of its path elements. viewBox is the sequence of its parts, an
\* attribute that may be absent is << >> or <<numeral>>.
StrokesToSvg(strokes, width, height, strokeWidth) ==
    [kind |-> "svg",
     viewBox |-> <<Numeral(0), Numeral(0), Numeral(width), Numeral(height)>>,
     width |-> <<Numeral(width)>>, height |-> <<Numeral(height)>>,
     strokeWidth |-> strokeWidth,
     paths |-> FilterNonEmpty([k \in 1..Len(strokes) |-> StrokeToPathD(strokes[k])])]

\* parsePathD: a point for every M or L command whose two numbers parse;
\* other commands match nothing.
RECURSIVE ParsePathD(_)
ParsePathD(d) ==
    IF d = << >> THEN << >>
    ELSE (IF Head(d).c \in {"M", "L"} /\ ~IsNaN(Head(d).x) /\ ~IsNaN(Head(d).y)
          THEN << [x |-> ParseFloat(Head(d).x), y |-> ParseFloat(Head(d).y),
                   p |-> 500, t |-> 0] >>
          ELSE << >>) \o ParsePathD(Tail(d))

\* parseFloat(s) || fallback, in whole units
OrDefault(s, fallback) ==
    IF IsNaN(s) \/ ParseFloat(s) = 0 THEN fallback ELSE ParseFloat(s) \div 1000

\* Default dimensions of svgToStrokes.
DefaultWidth == 800
DefaultHeight == 320

\* The width and height svgToStrokes takes from the svg element.
SvgDimensions(svg) ==
    IF svg.viewBox # << >>
    THEN IF Len(svg.viewBox) >= 4
         THEN [width  |-> OrDefault(svg.viewBox[3], DefaultWidth),
               height |-> OrDefault(svg.viewBox[4], DefaultHeight)]
         ELSE [width |-> DefaultWidth, height |-> DefaultHeight]
    ELSE [width  |-> IF svg.width # << >> THEN OrDefault(svg.width[1], DefaultWidth)
                     ELSE DefaultWidth,
          height |-> IF svg.height # << >> THEN OrDefault(svg.height[1], DefaultHeight)
                     ELSE DefaultHeight]

\* the loop over the path elements pushing every stroke it parses
RECURSIVE PathsToStrokesAll(_)
PathsToStrokesAll(paths) ==
    IF paths = << >> THEN << >>
    ELSE <<ParsePathD(Head(paths))>> \o PathsToStrokesAll(Tail(paths))

\* The loop over the path elements: a path with no d (or d = "", << >>) and a
\* path that gives no point are passed over.
RECURSIVE PathsToStrokes(_)
PathsToStrokes(paths) ==
    IF paths = << >> THEN << >>
    ELSE (IF Head(paths) # << >> /\ Len(ParsePathD(Head(paths))) > 0
          THEN <<ParsePathD(Head(paths))>> ELSE << >>) \o PathsToStrokes(Tail(paths))

\* svgToStrokes; a text that is no SVG document has no svg and no path element.
SvgToStrokes(text) ==
    IF text.kind # "svg"
    THEN [strokes |-> << >>, width |-> DefaultWidth, height |-> DefaultHeight]
    ELSE [strokes |-> PathsToStrokes(text.paths),
          width  |-> SvgDimensions(text).width,
          height |-> SvgDimensions(text).height]

\* createManifest numbering the files from idx instead of idx + 1
CreateManifestFromZero(cells, strokeWidth) ==
    [version |-> 1, strokeWidth |-> <<strokeWidth>>,
     cells |-> << [k \in 1..Len(cells) |->
                    [file |-> FileName(k - 2), height |-> cells[k].height,
                     recognizedCode |-> cells[k].recognizedCode]] >>]

\* createManifest (k is the 1-based place, idx = k - 1)
CreateManifest(cells, strokeWidth) ==
    [version |-> 1, strokeWidth |-> <<strokeWidth>>,
     cells |-> << [k \in 1..Len(cells) |->
                    [file |-> FileName(k - 1), height |-> cells[k].height,
                     recognizedCode |-> cells[k].recognizedCode]] >>]

\* Texts. A text is a record with a kind: "svg" (an SVG document), "json" (a
\* JSON text, with the value it denotes), "empty" (the empty text) or "other".
EmptyText == [kind |-> "empty"]
OtherText == [kind |-> "other"]

\* JSON.stringify(manifest, null, 2): a property whose value is undefined is
\* left out, which is what << >> stands for already.
JsonStringify(value) == [kind |-> "json", value |-> value]

\* JSON.parse: throws unless the text is JSON.
JsonParse(text) ==
    IF text.kind = "json" THEN [ok |-> TRUE, value |-> text.value]
    ELSE [ok |-> FALSE, value |-> << >>]

\* ------------------------------------------------------------- project storage: outcomes

\* What an awaited call may throw.
AbortError    == [isError |-> TRUE, name |-> "AbortError", message |-> "The user aborted a request."]
DeniedError   == [isError |-> TRUE, name |-> "NotAllowedError", message |-> "Permission denied"]
ReadError     == [isError |-> TRUE, name |-> "NotReadableError", message |-> "The file could not be read"]
SyntaxError   == [isError |-> TRUE, name |-> "SyntaxError", message |-> "Unexpected token in JSON"]
ThrownValue   == [isError |-> FALSE, name |-> "", message |-> ""]
\* The outcome of an awaited call: << >> when it completes, <<e>> when it throws e.
Throws == { << >>, <<AbortError>>, <<DeniedError>>, <<ThrownValue>> }
\* The outcomes of a step on a directory that was granted.
StepThrows == { << >>, <<DeniedError>> }

Success(notebook, strokeWidth) ==
    [kind |-> "returned", success |-> TRUE, error |-> << >>,
     notebook |-> notebook, strokeWidth |-> strokeWidth]
Failure(message) ==
    [kind |-> "returned", success |-> FALSE, error |-> <<message>>,
     notebook |-> << >>, strokeWidth |-> << >>]
\* An async function that lets the exception out: its promise is rejected.
RejectedWith(e) ==
    [kind |-> "rejected", success |-> FALSE, error |-> <<e.message>>,
     notebook |-> << >>, strokeWidth |-> << >>]
NoResult ==
    [kind |-> "none", success |-> FALSE, error |-> << >>,
     notebook |-> << >>, strokeWidth |-> << >>]

NotSupported == Failure("File System Access API not supported")

\* the catch block of saveProject without the AbortError test
SaveCatchGeneric(e) == Failure(IF e.isError THEN e.message ELSE "Save failed")

\* the catch block of saveProject
SaveCatch(e) ==
    IF e.isError /\ e.name = "AbortError" THEN Failure("Cancelled")
    ELSE Failure(IF e.isError THEN e.message ELSE "Save failed")

\* the catch block of loadProject
LoadCatch(e) ==
    IF e.isError /\ e.name = "AbortError" THEN Failure("Cancelled")
    ELSE Failure(IF e.isError THEN e.message ELSE "Load failed")

\* the catch block of exportProjectAsZip
ExportCatch(e) == Failure(IF e.isError THEN e.message ELSE "Export failed")

\* importProjectFromZip without its try/catch
ImportNoCatch(e) == RejectedWith(e)

\* the catch block of importProjectFromZip
ImportCatch(e) == Failure(IF e.isError THEN e.message ELSE "Import failed")

\* ------------------------------------------------------------- project storage: members
\* A directory or an archive is a function from the paths of its files to
\* [text, ok]; ok = FALSE is a file that is there and cannot be read.

IsRootName(name) == \A k \in DOMAIN name : name[k] # "/"

\* What dirHandle.getFileHandle(name) finds: only files directly in the directory.
RootFiles(dir) == { name \in DOMAIN dir : IsRootName(name) }

\* SaveDefaultHeight: `cell.height ?? 320` of saveProject and exportProjectAsZip
SaveDefaultHeight == 320

\* the cell a loader pushes, without recognizedCode
LoadedCellNoCode(text, name, height, recognizedCode) ==
    [strokes |-> SvgToStrokes(text).strokes,
     height |-> <<Coalesce(height, SvgToStrokes(text).height)>>,
     recognizedCode |-> << >>, src |-> name]

\* The cell a loader pushes. `src` (history) is the document it came from;
\* the fresh id() is left out, no loader reads it.
LoadedCell(text, name, height, recognizedCode) ==
    [strokes |-> SvgToStrokes(text).strokes,
     height |-> <<Coalesce(height, SvgToStrokes(text).height)>>,
     recognizedCode |-> recognizedCode, src |-> name]

\* ------------------------------------------------------------- loadProject

\* The manifest loadProject ends up with: null (<< >>) when the file is
\* missing, unreadable or no JSON (the inner catch).
FsManifest(dir) ==
    IF ManifestName \in RootFiles(dir) /\ dir[ManifestName].ok
          /\ JsonParse(dir[ManifestName].text).ok
    THEN <<JsonParse(dir[ManifestName].text).value>>
    ELSE << >>

\* the loop over manifest.cells pushing each cell when its read completes,
\* the reads completing last first
RECURSIVE FsManifestLoopUnordered(_, _)
FsManifestLoopUnordered(dir, entries) ==
    IF entries = << >> THEN << >>
    ELSE LET e == Head(entries) IN
         FsManifestLoopUnordered(dir, Tail(entries)) \o
         (IF e.file \in RootFiles(dir) /\ dir[e.file].ok
          THEN <<LoadedCell(dir[e.file].text, e.file, e.height, e.recognizedCode)>>
          ELSE << >>)

\* The loop over manifest.cells: a cell whose document cannot be got is skipped.
RECURSIVE FsManifestLoop(_, _)
FsManifestLoop(dir, entries) ==
    IF entries = << >> THEN << >>
    ELSE LET e == Head(entries) IN
         (IF e.file \in RootFiles(dir) /\ dir[e.file].ok
          THEN <<LoadedCell(dir[e.file].text, e.file, e.height, e.recognizedCode)>>
          ELSE << >>) \o FsManifestLoop(dir, Tail(entries))

\* The loop over the sorted svgFiles: a throw of getFile() or text() leaves it.
RECURSIVE FsScanLoop(_, _)
FsScanLoop(dir, names) ==
    IF names = << >> THEN [err |-> << >>, cells |-> << >>]
    ELSE IF ~dir[Head(names)].ok THEN [err |-> <<ReadError>>, cells |-> << >>]
    ELSE LET rest == FsScanLoop(dir, Tail(names)) IN
         [err |-> rest.err,
          cells |-> <<LoadedCell(dir[Head(names)].text, Head(names), << >>, << >>)>> \o rest.cells]

\* loadProject with the names sorted downwards
FsScanNamesDescending(dir) ==
    Reversed(SortNames({ n \in RootFiles(dir) : EndsWith(n, SvgExt) }, Collation))

\* The svgFiles of loadProject after the sort.
FsScanNames(dir) ==
    SortNames({ n \in RootFiles(dir) : EndsWith(n, SvgExt) }, Collation)

\* loadProject without the test of cells.length
LoadProjectNoEmptyTest(fsa, pick, dir) ==
    IF ~fsa THEN NotSupported
    ELSE IF pick # << >> THEN LoadCatch(pick[1])
    ELSE LET m == FsManifest(dir) IN
         IF m # << >> /\ m[1].cells # << >>
         THEN Success(<<[version |-> 1, cells |-> FsManifestLoop(dir, m[1].cells[1])]>>,
                      m[1].strokeWidth)
         ELSE LET r == FsScanLoop(dir, FsScanNames(dir)) IN
              IF r.err # << >> THEN LoadCatch(r.err[1])
              ELSE Success(<<[version |-> 1, cells |-> r.cells]>>,
                           IF m # << >> THEN m[1].strokeWidth ELSE << >>)

\* loadProject(): fsa is hasFileSystemAccess(), pick what showDirectoryPicker
\* throws (<< >>: the user grants the directory dir).
LoadProject(fsa, pick, dir) ==
    IF ~fsa THEN NotSupported
    ELSE IF pick # << >> THEN LoadCatch(pick[1])
    ELSE LET m == FsManifest(dir) IN
         IF m # << >> /\ m[1].cells # << >>
         THEN LET cells == FsManifestLoop(dir, m[1].cells[1]) IN
              IF cells = << >> THEN Failure("No cells found in project")
              ELSE Success(<<[version |-> 1, cells |-> cells]>>, m[1].strokeWidth)
         ELSE LET r == FsScanLoop(dir, FsScanNames(dir)) IN
              IF r.err # << >> THEN LoadCatch(r.err[1])
              ELSE IF r.cells = << >> THEN Failure("No cells found in project")
              ELSE Success(<<[version |-> 1, cells |-> r.cells]>>,
                           IF m # << >> THEN m[1].strokeWidth ELSE << >>)

\* ------------------------------------------------------------- importProjectFromZip

\* The loop over manifest.cells: a member that is missing is skipped, a throw
\* of async("string") leaves the loop.
RECURSIVE ZipManifestLoop(_, _)
ZipManifestLoop(zip, entries) ==
    IF entries = << >> THEN [err |-> << >>, cells |-> << >>]
    ELSE LET e == Head(entries) IN
         IF e.file \notin DOMAIN zip THEN ZipManifestLoop(zip, Tail(entries))
         ELSE IF ~zip[e.file].ok THEN [err |-> <<ReadError>>, cells |-> << >>]
         ELSE LET rest == ZipManifestLoop(zip, Tail(entries)) IN
              [err |-> rest.err,
               cells |-> <<LoadedCell(zip[e.file].text, e.file, e.height, e.recognizedCode)>>
                            \o rest.cells]

\* The loop over the sorted names.
RECURSIVE ZipScanLoop(_, _)
ZipScanLoop(zip, names) ==
    IF names = << >> THEN [err |-> << >>, cells |-> << >>]
    ELSE IF ~zip[Head(names)].ok THEN [err |-> <<ReadError>>, cells |-> << >>]
    ELSE LET rest == ZipScanLoop(zip, Tail(names)) IN
         [err |-> rest.err,
          cells |-> <<LoadedCell(zip[Head(names)].text, Head(names), << >>, << >>)>> \o rest.cells]

\* Object.keys(zip.files).filter(name => name.endsWith(".svg")).sort()
ZipScanNames(zip) == SortNames({ n \in DOMAIN zip : EndsWith(n, SvgExt) }, Alphabet)

\* importProjectFromZip(file): lib is what import("jszip") or loadAsync throws
\* (<< >>: the archive opens and has the members zip).
ImportProjectFromZip(lib, zip) ==
    IF lib # << >> THEN ImportCatch(lib[1])
    ELSE IF ManifestName \in DOMAIN zip /\ ~zip[ManifestName].ok THEN ImportCatch(ReadError)
    ELSE IF ManifestName \in DOMAIN zip /\ ~JsonParse(zip[ManifestName].text).ok
    THEN ImportCatch(SyntaxError)
    ELSE LET m == IF ManifestName \in DOMAIN zip
                  THEN <<JsonParse(zip[ManifestName].text).value>> ELSE << >>
             r == IF m # << >> /\ m[1].cells # << >>
                  THEN ZipManifestLoop(zip, m[1].cells[1])
                  ELSE ZipScanLoop(zip, ZipScanNames(zip))
         IN  IF r.err # << >> THEN ImportCatch(r.err[1])
             ELSE IF r.cells = << >> THEN Failure("No cells found in ZIP")
             ELSE Success(<<[version |-> 1, cells |-> r.cells]>>,
                          IF m # << >> THEN m[1].strokeWidth ELSE << >>)

\* ------------------------------------------------------------- saveProject, exportProjectAsZip

\* saveProject writing the manifest before the documents
SaveWritesManifestFirst(cells, strokeWidth, canvasWidth) ==
    << [name |-> ManifestName, text |-> JsonStringify(CreateManifest(cells, strokeWidth))] >>
    \o [k \in 1..Len(cells) |->
          [name |-> FileName(k - 1),
           text |-> StrokesToSvg(cells[k].strokes, canvasWidth,
                                 Coalesce(cells[k].height, SaveDefaultHeight), strokeWidth)]]

\* The files saveProject writes, in order: the loop over the cells (k is the
\* 1-based place, i = k - 1), then the manifest.
SaveWrites(cells, strokeWidth, canvasWidth) ==
    [k \in 1..Len(cells) |->
          [name |-> FileName(k - 1),
           text |-> StrokesToSvg(cells[k].strokes, canvasWidth,
                                 Coalesce(cells[k].height, SaveDefaultHeight), strokeWidth)]]
    \o << [name |-> ManifestName, text |-> JsonStringify(CreateManifest(cells, strokeWidth))] >>

\* exportProjectAsZip naming the members from cell-000
ZipEntriesFromZero(cells, strokeWidth, canvasWidth) ==
    [k \in 1..Len(cells) |->
          [name |-> FileName(k - 2),
           text |-> StrokesToSvg(cells[k].strokes, canvasWidth,
                                 Coalesce(cells[k].height, SaveDefaultHeight), strokeWidth)]]
    \o << [name |-> ManifestName, text |-> JsonStringify(CreateManifest(cells, strokeWidth))] >>

\* The zip.file(name, text) calls of exportProjectAsZip, in order.
ZipEntries(cells, strokeWidth, canvasWidth) ==
    [k \in 1..Len(cells) |->
          [name |-> FileName(k - 1),
           text |-> StrokesToSvg(cells[k].strokes, canvasWidth,
                                 Coalesce(cells[k].height, SaveDefaultHeight), strokeWidth)]]
    \o << [name |-> ManifestName, text |-> JsonStringify(CreateManifest(cells, strokeWidth))] >>

\* The members after a sequence of writes, each replacing the file of its name.
RECURSIVE WriteAll(_, _)
WriteAll(members, writes) ==
    IF writes = << >> THEN members
    ELSE WriteAll(MapSet(members, Head(writes).name, [text |-> Head(writes).text, ok |-> TRUE]),
                  Tail(writes))

\* ------------------------------------------------------------- project storage: steps

\* The notebooks a caller hands to saveProject and exportProjectAsZip.
StrokeLine == << [x |-> 1234, y |-> 2000, p |-> 700, t |-> 1],
                 [x |-> 3000, y |-> 4006, p |-> 800, t |-> 2] >>
StrokeDot  == << [x |-> 5000, y |-> 5000, p |-> 500, t |-> 3] >>
CellKinds ==
    { [strokes |-> <<StrokeDot, StrokeLine>>, height |-> <<400>>, recognizedCode |-> <<"x = 1">>],
      [strokes |-> << >>, height |-> << >>, recognizedCode |-> << >>] }
CellLists == UNION { [1..n -> CellKinds] : n \in 0..MaxCells }
Notebooks == { [cells |-> c, strokeWidth |-> 3, canvasWidth |-> 800] : c \in CellLists }

\* What the user may put into a directory or an archive by other means: a
\* document left by an earlier, longer project, and one in a subdirectory.
StrayName  == << "c", "e", "l", "l", "-", "0", "1", "0", ".", "s", "v", "g" >>
NestedName == << "a", "/", "c", "e", "l", "l", "-", "0", "0", "1", ".", "s", "v", "g" >>
StrayText  == StrokesToSvg(<<StrokeDot>>, 800, 240, 3)

NoSave == [pc |-> "idle", k |-> 0, open |-> FALSE, log |-> << >>, res |-> NoResult,
           thrown |-> << >>]
NotOpened == [op |-> "none", res |-> NoResult, thrown |-> << >>, granted |-> FALSE]
NotExported == [res |-> NoResult, members |-> << >>]

\* The save returns: its result, and what it caught.
SaveReturns(res, e) ==
    save' = [save EXCEPT !.pc = "done", !.res = res, !.thrown = e, !.open = FALSE]

\* saveProject up to the grant of the directory.
SaveStart(fsa, pick) ==
    /\ save.pc = "idle"
    /\ IF ~fsa THEN SaveReturns(NotSupported, << >>)
       ELSE IF pick # << >> THEN SaveReturns(SaveCatch(pick[1]), pick)
       ELSE save' = [save EXCEPT !.pc = "writing", !.k = 1]
    /\ opened' = NotOpened
    /\ UNCHANGED <<pyVars, codecVars, canvasVars, appVars, nb, disk, archive, exported, edits>>

\* The write saveProject is at.
SaveWrite == SaveWrites(nb.cells, nb.strokeWidth, nb.canvasWidth)[save.k]

\* getFileHandle(name, {create: true}) and createWritable(): the file is
\* there afterwards, empty if it was not there before.
SaveOpen(err) ==
    /\ save.pc = "writing" /\ ~save.open
    /\ IF err # << >>
       THEN /\ SaveReturns(SaveCatch(err[1]), err)
            /\ UNCHANGED disk
       ELSE /\ save' = [save EXCEPT !.open = TRUE,
                           !.log = Append(@, [op |-> "open", name |-> SaveWrite.name,
                                              text |-> EmptyText])]
            /\ disk' = IF SaveWrite.name \in DOMAIN disk THEN disk
                       ELSE MapSet(disk, SaveWrite.name, [text |-> EmptyText, ok |-> TRUE])
    /\ opened' = NotOpened
    /\ UNCHANGED <<pyVars, codecVars, canvasVars, appVars, nb, archive, exported, edits>>

\* write(text) and close(): the file has the text once close() completes;
\* after the last write saveProject returns success.
SaveClose(err) ==
    /\ save.pc = "writing" /\ save.open
    /\ IF err # << >>
       THEN /\ SaveReturns(SaveCatch(err[1]), err)
            /\ UNCHANGED disk
       ELSE /\ disk' = MapSet(disk, SaveWrite.name, [text |-> SaveWrite.text, ok |-> TRUE])
            /\ LET log == Append(save.log, [op |-> "close", name |-> SaveWrite.name,
                                            text |-> SaveWrite.text])
                   n == Len(SaveWrites(nb.cells, nb.strokeWidth, nb.canvasWidth))
               IN  save' = IF save.k = n
                           THEN [save EXCEPT !.pc = "done", !.open = FALSE, !.log = log,
                                             !.res = Success(<< >>, << >>)]
                           ELSE [save EXCEPT !.k = @ + 1, !.open = FALSE, !.log = log]
    /\ opened' = NotOpened
    /\ UNCHANGED <<pyVars, codecVars, canvasVars, appVars, nb, archive, exported, edits>>

\* exportProjectAsZip: the archive the download leaves on the user's machine.
Export(lib) ==
    /\ save.pc # "writing"
    /\ exported.res = NoResult
    /\ IF lib # << >>
       THEN /\ exported' = [res |-> ExportCatch(lib[1]), members |-> << >>]
            /\ UNCHANGED archive
       ELSE LET m == WriteAll(<< >>, ZipEntries(nb.cells, nb.strokeWidth, nb.canvasWidth)) IN
            /\ exported' = [res |-> Success(<< >>, << >>), members |-> m]
            /\ archive' = m
    /\ opened' = NotOpened
    /\ UNCHANGED <<pyVars, codecVars, canvasVars, appVars, nb, disk, save, edits>>

\* loadProject on the directory as it is.
Load(fsa, pick) ==
    /\ save.pc # "writing"
    /\ opened' = [op |-> "load", res |-> LoadProject(fsa, pick, disk),
                  thrown |-> IF fsa THEN pick ELSE << >>, granted |-> fsa /\ pick = << >>]
    /\ UNCHANGED <<pyVars, codecVars, canvasVars, appVars, nb, disk, save, archive, exported, edits>>

\* importProjectFromZip on the archive as it is.
Import(lib) ==
    /\ save.pc # "writing"
    /\ opened' = [op |-> "import", res |-> ImportProjectFromZip(lib, archive), thrown |-> lib,
                  granted |-> lib = << >>]
    /\ UNCHANGED <<pyVars, codecVars, canvasVars, appVars, nb, disk, save, archive, exported, edits>>

\* The manifest text with its cells in reverse order.
ReverseCells(text) ==
    JsonStringify([text.value EXCEPT !.cells = <<Reversed(@[1])>>])

\* The user, or another program, changes the members between two operations:
\* removes one, leaves one unreadable, adds a document, replaces the manifest
\* by something that is no JSON, or reorders the cells of the manifest.
Changes(m) ==
    { MapDelete(m, n) : n \in DOMAIN m }
    \cup { MapSet(m, n, [m[n] EXCEPT !.ok = FALSE]) : n \in { x \in DOMAIN m : m[x].ok } }
    \cup { MapSet(m, n, [text |-> StrayText, ok |-> TRUE]) :
              n \in {StrayName, NestedName} \ DOMAIN m }
    \cup { MapSet(m, n, [text |-> OtherText, ok |-> TRUE]) :
              n \in { x \in {ManifestName} \cap DOMAIN m : m[x].text.kind = "json" } }
    \cup { MapSet(m, n, [text |-> ReverseCells(m[n].text), ok |-> m[n].ok]) :
              n \in { x \in {ManifestName} \cap DOMAIN m :
                         /\ m[x].text.kind = "json"
                         /\ Len(m[x].text.value.cells[1]) > 1
                         /\ Reversed(m[x].text.value.cells[1]) # m[x].text.value.cells[1] } }

EditDisk ==
    /\ save.pc # "writing" /\ edits < MaxEdits
    /\ \E d \in Changes(disk) : disk' = d
    /\ edits' = edits + 1
    /\ opened' = NotOpened
    /\ UNCHANGED <<pyVars, codecVars, canvasVars, appVars, nb, save, archive, exported>>

EditArchive ==
    /\ save.pc # "writing" /\ edits < MaxEdits
    /\ \E a \in Changes(archive) : archive' = a
    /\ edits' = edits + 1
    /\ opened' = NotOpened
    /\ UNCHANGED <<pyVars, codecVars, canvasVars, appVars, nb, disk, save, exported>>

\* ------------------------------------------------------------- lib/svg: steps

\* The strokes and dimensions a caller hands to strokesToSvg. StrokeOut has
\* points left of and above the canvas, as a captured pointer gives them.
StrokeOut == << [x |-> -1504, y |-> 2000, p |-> 500, t |-> 4],
                [x |-> 7, y |-> -3, p |-> 500, t |-> 5],
                [x |-> 640000, y |-> 319996, p |-> 900, t |-> 6] >>
StrokeSamples == { << >>, StrokeDot, StrokeLine, StrokeOut }
StrokeLists == UNION { [1..n -> StrokeSamples] : n \in 0..MaxStrokes }
CodecInputs ==
    { [strokes |-> s, width |-> d[1], height |-> d[2], strokeWidth |-> 4] :
         s \in StrokeLists, d \in { <<800, 320>>, <<1024, 200>> } }

NoText == [kind |-> "none"]

\* Path elements other tools write: one without a d attribute, a curve, a
\* move-to whose number does not parse.
ForeignPaths ==
    { << >>,
      << [c |-> "C", x |-> Numeral(10), y |-> Numeral(20)] >>,
      << [c |-> "M", x |-> << >>, y |-> Numeral(20)] >> }

\* s with e put in before place i
InsertAt(s, i, e) == SubSeq(s, 1, i - 1) \o <<e>> \o SubSeq(s, i, Len(s))

\* Documents that differ from doc in one respect: the viewBox (absent, too
\* short, with parts that do not parse or are 0), the width or height
\* attribute (absent, not a number, another number), or one more path element.
SvgVariants(doc) ==
    { [doc EXCEPT !.viewBox = v] :
         v \in { << >>, <<Numeral(0), Numeral(0)>>,
                 <<Numeral(0), Numeral(0), << >>, Numeral(240)>>,
                 <<Numeral(0), Numeral(0), Numeral(0), Numeral(0)>> } }
    \cup { [doc EXCEPT !.width = w] : w \in { << >>, << << >> >>, <<Numeral(500)>> } }
    \cup { [doc EXCEPT !.height = h] : h \in { << >>, << << >> >>, <<Numeral(200)>> } }
    \cup { [doc EXCEPT !.paths = InsertAt(@, i, q)] :
              i \in 1..(Len(doc.paths) + 1), q \in ForeignPaths }

\* strokesToSvg(strokes, width, height, strokeWidth) is called.
Encode ==
    /\ svgText = NoText
    /\ svgText' = StrokesToSvg(codecIn.strokes, codecIn.width, codecIn.height,
                               codecIn.strokeWidth)
    /\ UNCHANGED <<codecIn, decoded, svgEdits>>
    /\ UNCHANGED <<pyVars, storageVars, canvasVars, appVars>>

\* The document is changed by another tool before it is read back.
EditSvg ==
    /\ svgText.kind = "svg" /\ decoded = << >>
    /\ svgEdits < MaxSvgEdits
    /\ \E doc \in SvgVariants(svgText) \ {svgText} : svgText' = doc
    /\ svgEdits' = svgEdits + 1
    /\ UNCHANGED <<codecIn, decoded>>
    /\ UNCHANGED <<pyVars, storageVars, canvasVars, appVars>>

\* svgToStrokes(svgString) is called.
Decode ==
    /\ svgText # NoText /\ decoded = << >>
    /\ decoded' = <<SvgToStrokes(svgText)>>
    /\ UNCHANGED <<codecIn, svgText, svgEdits>>
    /\ UNCHANGED <<pyVars, storageVars, canvasVars, appVars>>

CodecIdle ==
    /\ svgText = NoText
    /\ decoded = << >>
    /\ svgEdits = 0

\* ------------------------------------------------------------- components/InkCanvas.tsx
\* Coordinates of pointer events are whole units; t is the number of the
\* event. onChange(strokes) is taken with the re-rendering it causes: the
\* next event finds the new list in the `strokes` prop.

\* The pointers of the device and what their events report.
Pointers == { [id |-> 1, type |-> "mouse"], [id |-> 2, type |-> "pen"],
              [id |-> 3, type |-> "touch"] }
Buttons == {0, 2}
Positions == { <<10, 10>>, <<25, 10>>, <<30, 10>>, <<100, 100>> }
Pressures == {0, 800}

\* The strokes the cell holds when the canvas is mounted.
CanvasStart ==
    { << >>,
      << << [x |-> 10, y |-> 10, p |-> 500, t |-> 0] >>,
         << [x |-> 100, y |-> 90, p |-> 500, t |-> 0],
            [x |-> 50, y |-> 10, p |-> 500, t |-> 0] >> >> }

NoPosition == <<0, 0>>
NoEvent == [type |-> "none", pointer |-> [id |-> 0, type |-> "none"], handled |-> FALSE,
            pos |-> NoPosition]

\* eventPoint(e)
EventPoint(pos, pressure, now) ==
    [x |-> pos[1], y |-> pos[2], p |-> IF pressure > 0 THEN pressure ELSE 500, t |-> now]

\* acceptPointer accepting every pointer type
AcceptAnyPointer(ptr) == TRUE

\* acceptPointer(e)
AcceptPointer(ptr) == ptr.type = "pen" \/ ptr.type = "mouse"

\* Threshold: the `threshold` of handleErase
Threshold == 20

\* isPointNearStroke(px, py, stroke, threshold), py written qy
IsPointNearStroke(px, qy, stroke, threshold) ==
    \E k \in DOMAIN stroke :
        (stroke[k].x - px) * (stroke[k].x - px) + (stroke[k].y - qy) * (stroke[k].y - qy)
            < threshold * threshold

\* handleErase removing the points near the position instead of the strokes
RECURSIVE RemainingPoints(_, _, _)
RemainingPoints(strokes, x, y) ==
    IF strokes = << >> THEN << >>
    ELSE << SelectSeq(Head(strokes), LAMBDA pt : ~IsPointNearStroke(x, y, <<pt>>, Threshold)) >>
         \o RemainingPoints(Tail(strokes), x, y)

\* The `remaining` of handleErase(x, y).
Remaining(strokes, x, y) ==
    SelectSeq(strokes, LAMBDA s : ~IsPointNearStroke(x, y, s, Threshold))

\* handleErase: onChange(remaining) when a stroke went.
HandleErase(x, y) ==
    canvasStrokes' = IF Len(Remaining(canvasStrokes, x, y)) # Len(canvasStrokes)
                     THEN Remaining(canvasStrokes, x, y)
                     ELSE canvasStrokes

\* the commit of onPointerUp without the test of the length
CommitAny(strokes, stroke) == Append(strokes, stroke)

\* The commit of onPointerUp: onChange([...strokes, stroke]) for a stroke
\* with a point.
Commit(strokes, stroke) == IF Len(stroke) >= 1 THEN Append(strokes, stroke) ELSE strokes

\* History: the event that came last, whether a handler acted on it, and the
\* position it reported where the handler read it.
Event(type, ptr, handled, pos) ==
    /\ ev' = [type |-> type, pointer |-> ptr, handled |-> handled, pos |-> pos]
    /\ nEvents' = nEvents + 1

\* onPointerDown
PointerDown(ptr, button, pos, pressure) ==
    /\ nEvents < MaxEvents
    /\ IF button # 0 \/ ~AcceptPointer(ptr) \/ drawing
       THEN /\ Event("down", ptr, FALSE, NoPosition)
            /\ UNCHANGED <<canvasStrokes, drawing, activeStroke, activePointerId, downTool>>
       ELSE /\ Event("down", ptr, TRUE, pos)
            /\ downTool' = tool
            /\ drawing' = TRUE
            /\ activePointerId' = ptr.id
            /\ IF tool = "eraser"
               THEN /\ HandleErase(pos[1], pos[2])
                    /\ UNCHANGED activeStroke
               ELSE /\ activeStroke' = <<EventPoint(pos, pressure, nEvents + 1)>>
                    /\ UNCHANGED canvasStrokes
    /\ UNCHANGED tool
    /\ UNCHANGED <<pyVars, storageVars, codecVars, appVars>>

\* onPointerMove
PointerMove(ptr, pos, pressure) ==
    /\ nEvents < MaxEvents
    /\ IF ~drawing \/ ptr.id # activePointerId
       THEN /\ Event("move", ptr, FALSE, NoPosition)
            /\ UNCHANGED <<canvasStrokes, activeStroke>>
       ELSE /\ Event("move", ptr, TRUE, pos)
            /\ IF tool = "eraser"
               THEN /\ HandleErase(pos[1], pos[2])
                    /\ UNCHANGED activeStroke
               ELSE /\ activeStroke' = Append(activeStroke, EventPoint(pos, pressure, nEvents + 1))
                    /\ UNCHANGED canvasStrokes
    /\ UNCHANGED <<tool, drawing, activePointerId, downTool>>
    /\ UNCHANGED <<pyVars, storageVars, codecVars, appVars>>

\* onPointerUp
PointerUp(ptr) ==
    /\ nEvents < MaxEvents
    /\ IF ~drawing \/ ptr.id # activePointerId
       THEN /\ Event("up", ptr, FALSE, NoPosition)
            /\ UNCHANGED <<canvasStrokes, drawing, activeStroke, activePointerId>>
       ELSE /\ Event("up", ptr, TRUE, NoPosition)
            /\ drawing' = FALSE
            /\ activePointerId' = 0
            /\ IF tool = "pen"
               THEN /\ activeStroke' = << >>
                    /\ canvasStrokes' = Commit(canvasStrokes, activeStroke)
               ELSE UNCHANGED <<canvasStrokes, activeStroke>>
    /\ UNCHANGED <<tool, downTool>>
    /\ UNCHANGED <<pyVars, storageVars, codecVars, appVars>>

\* onPointerCancel
PointerCancel(ptr) ==
    /\ nEvents < MaxEvents
    /\ IF ptr.id # activePointerId
       THEN /\ Event("cancel", ptr, FALSE, NoPosition)
            /\ UNCHANGED <<drawing, activeStroke, activePointerId>>
       ELSE /\ Event("cancel", ptr, TRUE, NoPosition)
            /\ drawing' = FALSE
            /\ activePointerId' = 0
            /\ activeStroke' = << >>
    /\ UNCHANGED <<canvasStrokes, tool, downTool>>
    /\ UNCHANGED <<pyVars, storageVars, codecVars, appVars>>

\* The parent renders the canvas with the other tool.
SetTool ==
    /\ tool' = IF tool = "pen" THEN "eraser" ELSE "pen"
    /\ ev' = [NoEvent EXCEPT !.type = "tool", !.handled = TRUE]
    /\ UNCHANGED <<canvasStrokes, drawing, activeStroke, activePointerId, nEvents, downTool>>
    /\ UNCHANGED <<pyVars, storageVars, codecVars, appVars>>

CanvasIdle ==
    /\ tool = "pen"
    /\ drawing = FALSE
    /\ activeStroke = << >>
    /\ activePointerId = 0
    /\ downTool = "none"
    /\ ev = NoEvent
    /\ nEvents = 0

\* ------------------------------------------------------------- lib/groq.ts
\* A text is a sequence of pieces: a fence (three backticks), a language line ("python" and a
\* newline), white space, or other characters.

Fence == "<fence>"
LangLine == "python+nl"
Space == " "

\* String.prototype.trim
RECURSIVE Trim(_)
Trim(t) ==
    IF t = << >> THEN << >>
    ELSE IF Head(t) = Space THEN Trim(Tail(t))
    ELSE IF t[Len(t)] = Space THEN Trim(SubSeq(t, 1, Len(t) - 1))
    ELSE t

\* The places of the fences in t.
Fences(t) == { i \in DOMAIN t : t[i] = Fence }

\* t.split("```")[1]: what stands between the first and the second fence (or
\* the end of t).
SecondPart(t) ==
    LET first == CHOOSE i \in Fences(t) : \A j \in Fences(t) : i <= j
        later == { i \in Fences(t) : i > first }
        stop  == IF later = {} THEN Len(t) + 1
                 ELSE CHOOSE i \in later : \A j \in later : i <= j
    IN  SubSeq(t, first + 1, stop - 1)

\* extractCode(s)
ExtractCode(s) ==
    LET t == Trim(s) IN
    IF Fences(t) = {} THEN t
    ELSE IF Cardinality(Fences(t)) + 1 < 3
    THEN Trim(SelectSeq(t, LAMBDA x : x # Fence))
    ELSE LET part == SecondPart(t)
         IN  Trim(IF part # << >> /\ Head(part) = LangLine THEN Tail(part) ELSE part)

\* What one request can come to: fetch rejects, the status is not ok (with or
\* without a body text), the body is no JSON, the JSON has no content string,
\* or it has one.
Contents ==
    { << >>, <<Space>>, <<"x = 1">>, <<Space, "x = 1", Space>>,
      <<Fence, LangLine, "x = 1", Space, Fence>>,
      <<"Here:", Fence, "x = 1", Fence, "Done">>,
      <<Fence, "x = 1">> }
Responses ==
    { [kind |-> "reject"], [kind |-> "badjson"], [kind |-> "nocontent"],
      [kind |-> "status", status |-> 429, text |-> "rate limit"],
      [kind |-> "status", status |-> 500, text |-> ""] }
    \cup { [kind |-> "content", content |-> c] : c \in Contents }

\* An Error object.
Error(name, message) == [isError |-> TRUE, name |-> name, message |-> message]

\* What the try block of one attempt throws on the response, << >> if it
\* returns.
Thrown(r) ==
    CASE r.kind = "reject" -> <<Error("TypeError", <<"Failed to fetch">>)>>
      [] r.kind = "status" ->
            <<Error("Error", <<"Groq API error", r.status>>
                             \o (IF r.text # "" THEN <<":", r.text>> ELSE << >>))>>
      [] r.kind = "badjson" -> <<Error("SyntaxError", <<"Unexpected token">>)>>
      [] r.kind = "nocontent" -> <<Error("Error", <<"Empty model response">>)>>
      [] r.kind = "content" ->
            IF Trim(r.content) = << >>
            THEN <<Error("Error", <<"Empty model response">>)>>
            ELSE << >>

\* The bound of the loop.
MaxAttempts == 3

\* The sleep of the catch block without the test of the attempt
AlwaysBackoff(attempt) == <<400 * (attempt + 1)>>

\* The catch block: `if (attempt < 2) await sleep(400 * (attempt + 1))`;
\* << >> when it does not sleep.
Backoff(attempt) == IF attempt < 2 THEN <<400 * (attempt + 1)>> ELSE << >>

\* `throw lastErr instanceof Error ? lastErr : new Error("Groq request failed")`
FinalError(lastErr) ==
    IF lastErr # << >> /\ lastErr[1].isError THEN lastErr[1]
    ELSE Error("Error", <<"Groq request failed">>)

GroqIdle ==
    [pc |-> "idle", attempt |-> 0, lastErr |-> << >>, log |-> << >>,
     returned |-> << >>, thrown |-> << >>]

\* convertHandwritingToPython is called: the first fetch is under way.
GroqStart ==
    /\ groq.pc = "idle"
    /\ groq' = [groq EXCEPT !.pc = "fetch"]
    /\ UNCHANGED <<pyVars, storageVars, codecVars, canvasVars, clientVars>>

\* The request of the attempt comes to r: the function returns, or the catch
\* block keeps the error and sleeps, or the loop ends and the function throws.
GroqAttempt(r) ==
    /\ groq.pc = "fetch"
    /\ LET e    == Thrown(r)
           done == [op |-> "attempt", n |-> groq.attempt + 1, thrown |-> e]
       IN  IF e = << >>
           THEN groq' = [groq EXCEPT !.pc = "returned", !.log = Append(@, done),
                                     !.returned = <<ExtractCode(r.content)>>]
           ELSE IF Backoff(groq.attempt) # << >>
           THEN groq' = [groq EXCEPT !.pc = "sleep", !.lastErr = e,
                            !.log = @ \o <<done, [op |-> "sleep", ms |-> Backoff(groq.attempt)[1]]>>]
           ELSE IF groq.attempt + 1 < MaxAttempts
           THEN groq' = [groq EXCEPT !.pc = "fetch", !.attempt = @ + 1, !.lastErr = e,
                                     !.log = Append(@, done)]
           ELSE groq' = [groq EXCEPT !.pc = "thrown", !.attempt = @ + 1, !.lastErr = e,
                                     !.log = Append(@, done),
                                     !.thrown = <<FinalError(e)>>]
    /\ UNCHANGED <<pyVars, storageVars, codecVars, canvasVars, clientVars>>

\* The timer of sleep fires: attempt++ and the loop goes on, or ends with the
\* throw.
GroqWake ==
    /\ groq.pc = "sleep"
    /\ groq' = IF groq.attempt + 1 < MaxAttempts
               THEN [groq EXCEPT !.pc = "fetch", !.attempt = @ + 1]
               ELSE [groq EXCEPT !.pc = "thrown", !.attempt = @ + 1,
                                 !.thrown = <<FinalError(groq.lastErr)>>]
    /\ UNCHANGED <<pyVars, storageVars, codecVars, canvasVars, clientVars>>

\* ------------------------------------------------------------- components/NotebookClient.tsx

DEFAULT_CELL_HEIGHT == 320

\* { id: id(), strokes: [], height: DEFAULT_CELL_HEIGHT }; id() gives a token
\* that was not given before.
NewCell(i) ==
    [id |-> i, strokes |-> << >>, height |-> <<DEFAULT_CELL_HEIGHT>>, status |-> << >>,
     error |-> << >>, recognizedCode |-> << >>, stdout |-> << >>, stderr |-> << >>,
     runStatus |-> << >>]

\* emptyNotebook, made when the module is loaded
EmptyNotebook == [version |-> 1, cells |-> <<NewCell(1)>>]

\* The actions that name one cell.
PerCell == { "setStrokes", "clearCell", "setRecognized", "setStatus", "setRunStatus",
             "setOutput", "setCellHeight" }

\* cells.findIndex((c) => c.id === id), 0 for -1
FindIndex(cells, id) ==
    IF \E k \in DOMAIN cells : cells[k].id = id
    THEN CHOOSE k \in DOMAIN cells :
            cells[k].id = id /\ \A j \in DOMAIN cells : cells[j].id = id => k <= j
    ELSE 0

\* addCell putting the new cell at the end whatever afterId is
InsertAtEnd(cells, afterId, newCell) == Append(cells, newCell)

\* The cells of the addCell case; afterId is << >> (undefined) or <<id>>.
InsertAfter(cells, afterId, newCell) ==
    IF afterId = << >> THEN Append(cells, newCell)
    ELSE IF FindIndex(cells, afterId[1]) = 0 THEN Append(cells, newCell)
    ELSE SubSeq(cells, 1, FindIndex(cells, afterId[1])) \o <<newCell>>
         \o SubSeq(cells, FindIndex(cells, afterId[1]) + 1, Len(cells))

\* The object a per-cell case puts in the place of the cell with the id of
\* the action.
Patch(c, a) ==
    CASE a.type = "setStrokes" ->
            [c EXCEPT !.strokes = a.strokes, !.status = <<"idle">>, !.error = << >>]
      [] a.type = "clearCell" ->
            [c EXCEPT !.strokes = << >>, !.status = <<"idle">>, !.error = << >>,
                      !.recognizedCode = << >>, !.stdout = << >>, !.stderr = << >>]
      [] a.type = "setRecognized" -> [c EXCEPT !.recognizedCode = <<a.code>>]
      [] a.type = "setStatus" -> [c EXCEPT !.status = <<a.status>>, !.error = a.error]
      [] a.type = "setRunStatus" -> [c EXCEPT !.runStatus = <<a.runStatus>>]
      [] a.type = "setOutput" ->
            [c EXCEPT !.stdout = <<a.stdout>>, !.stderr = <<a.stderr>>,
                      !.runStatus = <<"done">>]
      [] a.type = "setCellHeight" -> [c EXCEPT !.height = <<a.height>>]

\* reducer(state, a); the id() of addCell gives nextId + 1.
Reducer(state, a) ==
    CASE a.type = "load" -> a.notebook
      [] a.type = "addCell" ->
            [state EXCEPT !.cells = InsertAfter(@, a.afterId, NewCell(nextId + 1))]
      [] a.type = "deleteCell" ->
            [state EXCEPT !.cells = SelectSeq(@, LAMBDA c : c.id # a.id)]
      [] a.type \in PerCell ->
            [state EXCEPT !.cells =
                [k \in DOMAIN @ |-> IF @[k].id = a.id THEN Patch(@[k], a) ELSE @[k]]]

\* dispatch(a): the next render has the state the reducer returns; `made` is
\* the number of id() calls of the caller that built the action.
Dispatch(a, made) ==
    /\ nbState' = Reducer(nbState, a)
    /\ nextId' = nextId + made + (IF a.type = "addCell" THEN 1 ELSE 0)

\* Recognized code, and cells as a session leaves them: one converted and
\* run, one where the conversion failed.
CodeText == <<"x = 1">>
RanCell(i) ==
    [NewCell(i) EXCEPT !.strokes = <<StrokeDot>>, !.height = <<400>>, !.status = <<"idle">>,
                       !.recognizedCode = <<CodeText>>, !.stdout = << <<"a">> >>, !.stderr = << << >> >>,
                       !.runStatus = <<"done">>]
FailedCell(i) ==
    [NewCell(i) EXCEPT !.strokes = <<StrokeLine>>, !.status = <<"error">>,
                       !.error = << <<"Missing Groq API key">> >>]

\* The notebook of loadProject for one saved cell: no status and no output.
LoadedNotebook(i) ==
    [version |-> 1,
     cells |-> <<[NewCell(i) EXCEPT !.strokes = <<StrokeLine>>,
                                    !.recognizedCode = <<CodeText>>]>>]

\* The actions the component can dispatch for the ids (those given out so
\* far and one that no cell has yet).
Actions(ids) ==
    { [type |-> "addCell", afterId |-> x] : x \in { << >> } \cup { <<i>> : i \in ids } }
    \cup { [type |-> t, id |-> i] : t \in {"deleteCell", "clearCell"}, i \in ids }
    \cup { [type |-> "setStrokes", id |-> i, strokes |-> <<StrokeDot, StrokeLine>>] : i \in ids }
    \cup { [type |-> "setRecognized", id |-> i, code |-> CodeText] : i \in ids }
    \cup { [type |-> "setStatus", id |-> i, status |-> x[1], error |-> x[2]] :
               i \in ids, x \in { <<"converting", << >> >>, <<"error", << <<"Canvas not ready">> >> >> } }
    \cup { [type |-> "setRunStatus", id |-> i, runStatus |-> "running"] : i \in ids }
    \cup { [type |-> "setOutput", id |-> i, stdout |-> <<"b">>, stderr |-> <<"E">>] : i \in ids }
    \cup { [type |-> "setCellHeight", id |-> i, height |-> 120] : i \in ids }
    \cup { [type |-> "load", notebook |-> LoadedNotebook(nextId + 1)] }

NoAction == [type |-> "none"]

ClientIdle ==
    /\ nbState = EmptyNotebook
    /\ nextId = 1
    /\ lastAction = NoAction
    /\ nDispatched = 0
    /\ localStorage = << >>
    /\ tasks = << >>
    /\ mounted = FALSE
    /\ saveTimer = << >>
    /\ cleared = {}

AppIdle == groq = GroqIdle /\ ClientIdle

\* ------------------------------------------------------------- BridgeSpec

\* What the arbitrary responder may send: every token the bridge can issue,
\* two it never issues ("0" and "01"), with either of two outputs.
InjectIds == { String(n) : n \in 0..MaxReq } \cup { <<0, 1>> }
InjectMsgs == { [id |-> i, stdout |-> o, stderr |-> <<>>] :
                    i \in InjectIds, o \in { <<"x">>, <<"y">> } }

Inject ==
    /\ nDelivered < MaxInject
    /\ \E data \in InjectMsgs : OnMessage(data)
    /\ UNCHANGED <<inbox, outbox, workerVars, storageVars, codecVars, canvasVars, appVars>>

BridgeInit ==
    /\ worker = 0
    /\ pending = << >>
    /\ reqId = 0
    /\ promise = << >>
    /\ inbox = << >>
    /\ outbox = << >>
    /\ pyodide = 0
    /\ py = FreshPy
    /\ bufs = << >>
    /\ handlers = << >>
    /\ workersConstructed = 0
    /\ sentTo = << >>
    /\ postTried = {}
    /\ resolveLog = << >>
    /\ nDelivered = 0
    /\ lastMsg = NoMsg
    /\ loadCalls = 0
    /\ posted = << >>

\* Nothing is stored and no storage operation was called.
StorageIdle ==
    /\ disk = << >>
    /\ archive = << >>
    /\ save = NoSave
    /\ exported = NotExported
    /\ opened = NotOpened
    /\ edits = 0

\* Nothing is encoded and the canvas of an empty cell is untouched.
OthersIdle ==
    /\ codecIn = [strokes |-> << >>, width |-> 800, height |-> 320, strokeWidth |-> 4]
    /\ CodecIdle
    /\ canvasStrokes = << >>
    /\ CanvasIdle
    /\ AppIdle

Init ==
    /\ BridgeInit
    /\ nb = [cells |-> << >>, strokeWidth |-> 3, canvasWidth |-> 800]
    /\ StorageIdle
    /\ OthersIdle

BridgeNext == Call \/ Inject

BridgeSpec == Init /\ [][BridgeNext]_vars

Next ==
    \/ Call
    \/ \E importOk \in BOOLEAN : Receive(importOk)
    \/ \E h \in 1..MaxReq, ok \in BOOLEAN : LoadResolved(h, ok)
    \/ \E h \in 1..MaxReq, ok \in BOOLEAN : PkgResolved(h, ok)
    \/ \E h \in 1..MaxReq : RunStep(h)
    \/ \E h \in 1..MaxReq : Finish(h)
    \/ Deliver

Spec == Init /\ [][Next]_vars

\* ------------------------------------------------------------- StorageSpec

StorageInit ==
    /\ BridgeInit
    /\ nb \in Notebooks
    /\ StorageIdle
    /\ OthersIdle

StorageNext ==
    \/ \E fsa \in BOOLEAN, pick \in Throws : SaveStart(fsa, pick)
    \/ \E err \in StepThrows : SaveOpen(err)
    \/ \E err \in StepThrows : SaveClose(err)
    \/ \E lib \in StepThrows : Export(lib)
    \/ \E fsa \in BOOLEAN, pick \in Throws : Load(fsa, pick)
    \/ \E lib \in StepThrows : Import(lib)
    \/ EditDisk
    \/ EditArchive

StorageSpec == StorageInit /\ [][StorageNext]_vars

\* ------------------------------------------------------------- ResaveSpec

\* The project an earlier save left in the directory: two cells, both with a
\* height, the first with recognized code.
PreviousCells ==
    << [strokes |-> <<StrokeLine>>, height |-> <<250>>, recognizedCode |-> <<"y = 2">>],
       [strokes |-> << >>, height |-> <<180>>, recognizedCode |-> << >>] >>
PreviousDisk == WriteAll(<< >>, SaveWrites(PreviousCells, 5, 800))

ResaveInit ==
    /\ BridgeInit
    /\ nb \in Notebooks
    /\ disk = PreviousDisk
    /\ archive = << >>
    /\ save = NoSave
    /\ exported = NotExported
    /\ opened = NotOpened
    /\ edits = 0
    /\ OthersIdle

ResaveNext ==
    \/ \E fsa \in BOOLEAN, pick \in Throws : SaveStart(fsa, pick)
    \/ \E err \in StepThrows : SaveOpen(err)
    \/ \E err \in StepThrows : SaveClose(err)
    \/ \E fsa \in BOOLEAN, pick \in Throws : Load(fsa, pick)

ResaveSpec == ResaveInit /\ [][ResaveNext]_vars

\* ------------------------------------------------------------- CodecSpec

CodecInit ==
    /\ BridgeInit
    /\ nb = [cells |-> << >>, strokeWidth |-> 3, canvasWidth |-> 800]
    /\ StorageIdle
    /\ codecIn \in CodecInputs
    /\ CodecIdle
    /\ canvasStrokes = << >>
    /\ CanvasIdle
    /\ AppIdle

CodecNext == Encode \/ EditSvg \/ Decode

CodecSpec == CodecInit /\ [][CodecNext]_vars

\* ------------------------------------------------------------- CanvasSpec

CanvasInit ==
    /\ BridgeInit
    /\ nb = [cells |-> << >>, strokeWidth |-> 3, canvasWidth |-> 800]
    /\ StorageIdle
    /\ codecIn = [strokes |-> << >>, width |-> 800, height |-> 320, strokeWidth |-> 4]
    /\ CodecIdle
    /\ canvasStrokes \in CanvasStart
    /\ CanvasIdle
    /\ AppIdle

CanvasNext ==
    \/ \E ptr \in Pointers, button \in Buttons, pos \in Positions, pressure \in Pressures :
          PointerDown(ptr, button, pos, pressure)
    \/ \E ptr \in Pointers, pos \in Positions, pressure \in Pressures :
          PointerMove(ptr, pos, pressure)
    \/ \E ptr \in Pointers : PointerUp(ptr)
    \/ \E ptr \in Pointers : PointerCancel(ptr)
    \/ SetTool

CanvasSpec == CanvasInit /\ [][CanvasNext]_vars

\* ------------------------------------------------------------- properties

Calls == DOMAIN promise
Handlers == DOMAIN handlers

\* Number(token): the value of a decimal digit string.
RECURSIVE TokenValue(_)
TokenValue(t) ==
    IF t = << >> THEN 0 ELSE 10 * TokenValue(SubSeq(t, 1, Len(t) - 1)) + t[Len(t)]

\* The deliveries (by number) that called the resolve of promise k.
DeliveriesOf(k) == { resolveLog[k][i].n : i \in DOMAIN resolveLog[k] }

\* C1: the resolve function of every request's promise is called at most
\* once, and no handled response message calls the resolve of two requests.
C1_ResolvedAtMostOnce ==
    /\ \A k \in Calls : Len(resolveLog[k]) <= 1
    /\ \A j, k \in Calls : j # k => DeliveriesOf(j) \cap DeliveriesOf(k) = {}

\* C1 witness: a response for an already resolved request was handled again
\* (a duplicate), while another request is still pending.
C1_Witness ==
    \E j, k \in Calls :
        /\ promise[k].state = "resolved"
        /\ Len(resolveLog[k]) = 1
        /\ nDelivered = resolveLog[k][1].n + 1
        /\ lastMsg.id = promise[k].token
        /\ promise[j].state = "pending"

\* C2: a promise is resolved only by a response that carries its own token,
\* and its value is the stdout/stderr of that response.
C2_OwnResponse ==
    \A k \in Calls :
        /\ \A i \in DOMAIN resolveLog[k] : resolveLog[k][i].msg.id = promise[k].token
        /\ promise[k].state = "resolved" =>
              /\ resolveLog[k] # << >>
              /\ promise[k].stdout = resolveLog[k][1].msg.stdout
              /\ promise[k].stderr = resolveLog[k][1].msg.stderr
        /\ promise[k].state = "pending" => resolveLog[k] = << >>

\* C2 witness: two requests were outstanding together, the response of the
\* later one arrived first, and the two resolved with different outputs.
C2_Witness ==
    \E j, k \in Calls :
        /\ j < k
        /\ promise[j].state = "resolved" /\ promise[k].state = "resolved"
        /\ resolveLog[k][1].n < resolveLog[j][1].n
        /\ promise[j].stdout # promise[k].stdout

\* C3: no promise returned by runPython is ever rejected. Violated: a throw
\* of `new Worker` or of postMessage inside the executor rejects it.
C3_NeverRejected == \A k \in Calls : promise[k].state # "rejected"

\* Errors that come from outside the worker's own logic.
InitErrors == {"NetworkError", "loadPyodide failed", "loadPackage failed"}

\* C4: every handled request message gets exactly one response, with the
\* same id; a fault raised by the code is in the stderr of that response; a
\* failure to initialise gives stdout "" and the error text as stderr.
\* Violated: see C5 and C7, whose interleavings lose the fault text.
C4_ExactlyOneResponse ==
    \A h \in Handlers :
        /\ Len(posted[h]) = IF handlers[h].pc = "done" THEN 1 ELSE 0
        /\ \A i \in DOMAIN posted[h] :
              /\ posted[h][i].id = handlers[h].id
              /\ handlers[h].fault # "" =>
                    \E c \in DOMAIN posted[h][i].stderr :
                        posted[h][i].stderr[c] = handlers[h].fault
              /\ handlers[h].err \in InitErrors =>
                    /\ posted[h][i].stdout = << >>
                    /\ posted[h][i].stderr = <<handlers[h].err>>

\* What a program writes to stdout when it runs alone, and its fault text.
RECURSIVE ExpectedOut(_)
ExpectedOut(code) ==
    IF code = << >> \/ Head(code).op = "raise" THEN << >>
    ELSE IF Head(code).op = "write" THEN <<Head(code).text>> \o ExpectedOut(Tail(code))
    ELSE ExpectedOut(Tail(code))

RECURSIVE ExpectedErr(_)
ExpectedErr(code) ==
    IF code = << >> THEN << >>
    ELSE IF Head(code).op = "raise" THEN <<Head(code).text>>
    ELSE ExpectedErr(Tail(code))

\* The response handler h posted holds exactly what its own program writes.
OwnOutput(h) ==
    \A i \in DOMAIN posted[h] :
        /\ posted[h][i].stdout = ExpectedOut(handlers[h].code)
        /\ posted[h][i].stderr = ExpectedErr(handlers[h].code)

\* C5: a request that overlapped another one inside the worker, and whose run
\* reached the end of run(), reports exactly the output of its own program.
\* Violated: _stdout/_stderr and sys.stdout/sys.stderr are shared by all runs.
C5_OwnOutputWhenOverlapping ==
    \A h \in Handlers : handlers[h].ov /\ handlers[h].err = "" => OwnOutput(h)

\* Not a claim, the other half of C5: a request that never overlapped another
\* one and got through run() reports exactly its own output.
OwnOutputWhenAlone ==
    \A h \in Handlers : ~handlers[h].ov /\ handlers[h].err = "" => OwnOutput(h)

\* C6: at most one Worker is ever constructed, none before the first call;
\* once a call got a Worker from getWorker() exactly one exists, every request
\* message was posted to it, and the first call constructs it unless its
\* `new Worker` throws.
C6_OneWorker ==
    /\ workersConstructed <= 1
    /\ worker = workersConstructed
    /\ reqId = 0 => workersConstructed = 0
    /\ postTried # {} => workersConstructed = 1
    /\ \A i \in DOMAIN sentTo : sentTo[i] = 1
    /\ (promise # << >> /\ promise[1].reason # "new Worker threw") => workersConstructed = 1

\* C6 witness: two calls were made before any response was handled, both
\* request messages went out.
C6_Witness ==
    /\ Len(sentTo) >= 2
    /\ nDelivered = 0
    /\ Len(inbox) >= 2
    /\ workersConstructed = 1

\* C7: loadPyodide() is called at most once in the session. Violated: init()
\* tests `pyodide`, which is still null while the first call awaits.
C7_InitOnce == loadCalls <= 1

\* C8: tokens are strictly increasing in call order, the pending entry of a
\* token holds the resolve of the call that got that token, and whenever
\* postMessage was reached for a token, its pending entry had been recorded:
\* it is in the map unless a response took it out.
C8_FreshTokens ==
    /\ \A j, k \in Calls :
          j < k => TokenValue(promise[j].token) < TokenValue(promise[k].token)
    /\ \A id \in DOMAIN pending : promise[pending[id]].token = id
    /\ \A k \in Calls :
          promise[k].token \in postTried =>
              promise[k].token \in DOMAIN pending \/ resolveLog[k] # << >>

\* C8 witness: a second call was made and posted while the first request was
\* still outstanding; both are in the map under different keys.
C8_Witness ==
    /\ Len(promise) >= 2
    /\ promise[1].state = "pending" /\ promise[2].state = "pending"
    /\ {promise[1].token, promise[2].token} \subseteq (DOMAIN pending \cap postTried)
    /\ promise[1].token # promise[2].token

\* A response with this id is one for an unknown or an already resolved request.
UnknownOrResolved(id) ==
    \A k \in Calls : promise[k].token = id => promise[k].state = "resolved"

\* C9: handling a response whose id is unknown or whose request was already
\* resolved resolves nothing and leaves the pending map as it was.
C9_DroppedSilently ==
    [][(nDelivered' = nDelivered + 1 /\ UnknownOrResolved(lastMsg'.id))
          => (promise' = promise /\ pending' = pending /\ resolveLog' = resolveLog)]_vars

\* C9 witness: with one request pending and another one resolved, the last
\* response handled carried an id that no request ever had.
C9_Witness ==
    /\ nDelivered >= 2
    /\ \A k \in Calls : promise[k].token # lastMsg.id
    /\ \E j, k \in Calls :
          /\ promise[j].state = "pending" /\ promise[j].token \in DOMAIN pending
          /\ promise[k].state = "resolved"

\* C10: a pending promise changes only in the handling of a response that
\* carries its token; no other step (a call, another response) settles it,
\* and its entry stays in the pending map.
C10_StaysPending ==
    [][\A k \in Calls :
          promise[k].state = "pending" =>
              \/ promise'[k] = promise[k] /\ promise[k].token \in DOMAIN pending'
              \/ nDelivered' = nDelivered + 1 /\ lastMsg'.id = promise[k].token]_vars

\* C10 witness: a request is still pending after a later request was made
\* and resolved and after all the responses of the run were handled.
C10_Witness ==
    \E j, k \in Calls :
        /\ j < k
        /\ promise[j].state = "pending"
        /\ promise[k].state = "resolved"
        /\ nDelivered = MaxInject

\* ------------------------------------------------------------- properties of the project storage

\* The events of the save so far that completed a write of the file.
ClosedBefore(i, name) ==
    \E j \in 1..(i - 1) : save.log[j].op = "close" /\ save.log[j].name = name

\* The file names a manifest text lists.
ListedFiles(text) == { text.value.cells[1][k].file : k \in DOMAIN text.value.cells[1] }

\* C11: within one saveProject run, when the write of the manifest begins the
\* document of every cell has been written and closed; and wherever the save
\* stops, a manifest this save wrote lists only documents this save wrote.
C11_DocumentsBeforeManifest ==
    \A i \in DOMAIN save.log :
        save.log[i].name = ManifestName =>
            /\ \A k \in DOMAIN nb.cells :
                  \E j \in 1..(i - 1) :
                      /\ save.log[j].op = "close"
                      /\ save.log[j].text = StrokesToSvg(nb.cells[k].strokes, nb.canvasWidth,
                                                Coalesce(nb.cells[k].height, SaveDefaultHeight),
                                                nb.strokeWidth)
                      /\ Cardinality({ h \in 1..j : save.log[h].op = "close" }) = k
            /\ save.log[i].op = "close" =>
                  \A f \in ListedFiles(save.log[i].text) : ClosedBefore(i, f)

\* C11 witness: a save of two cells stopped after it had begun the write of
\* the manifest and before that write was complete.
C11_Witness ==
    /\ Len(nb.cells) = 2
    /\ save.pc = "done" /\ ~save.res.success
    /\ save.log # << >>
    /\ save.log[Len(save.log)] = [op |-> "open", name |-> ManifestName, text |-> EmptyText]

\* C12: a dismissed directory picker makes saveProject and loadProject return
\* {success: false, error: "Cancelled"}, with nothing written and no
\* notebook; a failure of any other cause returns another error text.
C12_CancelledWhenDismissed ==
    /\ save.pc = "done" /\ save.thrown = <<AbortError>> =>
          /\ save.res.kind = "returned" /\ ~save.res.success
          /\ save.res.error = <<"Cancelled">>
          /\ save.log = << >>
    /\ opened.op = "load" /\ opened.thrown = <<AbortError>> =>
          /\ opened.res.kind = "returned" /\ ~opened.res.success
          /\ opened.res.error = <<"Cancelled">>
          /\ opened.res.notebook = << >>
    /\ save.pc = "done" /\ ~save.res.success /\ save.thrown # <<AbortError>> =>
          save.res.error # <<"Cancelled">>
    /\ opened.op = "load" /\ ~opened.res.success /\ opened.thrown # <<AbortError>> =>
          opened.res.error # <<"Cancelled">>

\* C12 witness: the picker of a save was dismissed, and after it the picker
\* of a load.
C12_Witness ==
    /\ save.pc = "done" /\ save.thrown = <<AbortError>>
    /\ opened.op = "load" /\ opened.thrown = <<AbortError>>
    /\ disk = << >>

\* C13: no storage operation lets an exception out: each call that ended
\* returned a result, and a result that is no success carries an error text.
C13_NeverRejects ==
    /\ save.pc = "done" => save.res.kind = "returned"
    /\ exported.res.kind \in {"none", "returned"}
    /\ opened.op # "none" => opened.res.kind = "returned"
    /\ \A r \in {save.res, exported.res, opened.res} :
          r.kind = "returned" /\ ~r.success => r.error # << >>

\* C13 witness: importProjectFromZip met a member of the archive it could not
\* read and returned the failure.
C13_Witness ==
    /\ opened.op = "import" /\ opened.thrown = << >>
    /\ \E n \in DOMAIN archive : ~archive[n].ok
    /\ opened.res = Failure(ReadError.message)

\* The members the last loader call worked on.
Store == IF opened.op = "load" THEN disk ELSE archive

\* The members hold a manifest that can be read and parses.
HasManifest(m) ==
    /\ ManifestName \in DOMAIN m
    /\ m[ManifestName].ok
    /\ m[ManifestName].text.kind = "json"

\* The file names of a manifest's cells list, in its order.
ManifestFiles(m) ==
    [k \in DOMAIN m[ManifestName].text.value.cells[1] |->
        m[ManifestName].text.value.cells[1][k].file]

\* The cells of a successful result, and the documents they came from.
CellsOf(res) == res.notebook[1].cells
Srcs(res) == [k \in DOMAIN CellsOf(res) |-> CellsOf(res)[k].src]
SrcSet(res) == { CellsOf(res)[k].src : k \in DOMAIN CellsOf(res) }

\* C14: with a manifest that parses, a loader that succeeds returns cells of
\* documents the manifest lists, in the order of the manifest's list.
C14_ManifestOrder ==
    opened.granted /\ opened.res.success /\ HasManifest(Store) =>
        /\ SrcSet(opened.res) \subseteq { ManifestFiles(Store)[k] : k \in DOMAIN ManifestFiles(Store) }
        /\ Srcs(opened.res) =
              SelectSeq(ManifestFiles(Store), LAMBDA f : f \in SrcSet(opened.res))

\* C14 witness: loadProject on a directory whose manifest lists cell-002
\* before cell-001 returned the cell of cell-002 before that of cell-001.
C14_Witness ==
    /\ opened.op = "load" /\ opened.res.success
    /\ HasManifest(disk)
    /\ ManifestFiles(disk) = <<FileName(1), FileName(0)>>
    /\ Srcs(opened.res) = <<FileName(1), FileName(0)>>
    /\ CellsOf(opened.res)[1].strokes # CellsOf(opened.res)[2].strokes

\* The listed documents that are there and can be read.
ReadableListed(m) ==
    SelectSeq(ManifestFiles(m), LAMBDA f : f \in DOMAIN m /\ m[f].ok)

\* C15: in a manifest-driven load, listed documents that are missing or
\* cannot be read are skipped: if one listed document at least can be read,
\* the loader succeeds with exactly the readable ones, in manifest order.
C15_UnreadableSkipped ==
    opened.granted /\ HasManifest(Store) /\ ReadableListed(Store) # << >> =>
        /\ opened.res.success
        /\ Srcs(opened.res) = ReadableListed(Store)

\* The .svg members directly under the root.
RootSvgs(m) == { n \in DOMAIN m : IsRootName(n) /\ EndsWith(n, SvgExt) }

\* C16: with no manifest among the members and every root document
\* readable, a loader returns the .svg documents directly under the root, all
\* of them and no others, in ascending order of name, with no recognizedCode
\* and no strokeWidth (and so fails when there is none under the root).
C16_FallbackRootSorted ==
    /\ opened.granted
    /\ ManifestName \notin DOMAIN Store
    /\ \A n \in RootSvgs(Store) : Store[n].ok
    => IF RootSvgs(Store) = {} THEN ~opened.res.success
       ELSE /\ opened.res.success
            /\ Srcs(opened.res) = SortNames(RootSvgs(Store), Collation)
            /\ \A k \in DOMAIN CellsOf(opened.res) :
                  CellsOf(opened.res)[k].recognizedCode = << >>
            /\ opened.res.strokeWidth = << >>

\* C17: a loader never returns success with an empty cell list.
C17_NoEmptySuccess ==
    opened.op # "none" /\ opened.res.success =>
        /\ opened.res.notebook # << >>
        /\ Len(CellsOf(opened.res)) > 0

\* C17 witness: loadProject found a manifest that parses, none of the
\* documents it lists, and returned a failure.
C17_Witness ==
    /\ opened.op = "load" /\ opened.granted
    /\ HasManifest(disk)
    /\ ManifestFiles(disk) # << >>
    /\ \A k \in DOMAIN ManifestFiles(disk) : ManifestFiles(disk)[k] \notin DOMAIN disk
    /\ opened.res = Failure("No cells found in project")

\* Two loader results are the same outcome: the same success flag and, for a
\* success, the same cells in the same order (strokes, height,
\* recognizedCode, document) and the same strokeWidth.
SameOutcome(a, b) ==
    /\ a.success = b.success
    /\ a.success => a.notebook = b.notebook /\ a.strokeWidth = b.strokeWidth

\* All members are directly under the root and can be read.
PlainMembers(m) == \A n \in DOMAIN m : IsRootName(n) /\ m[n].ok

\* C18: on the same members - all of them directly under the root and
\* readable; the manifest absent, valid or unparseable; each listed document
\* present or missing - loadProject and importProjectFromZip return the same
\* outcome.
C18_SameProcedure ==
    opened.granted /\ PlainMembers(Store) =>
        /\ opened.op = "load" =>
              SameOutcome(opened.res, ImportProjectFromZip(<< >>, disk))
        /\ opened.op = "import" =>
              SameOutcome(opened.res, LoadProject(TRUE, << >>, archive))

\* The members a save run wrote: each file it closed, with the text of the
\* last write.
Written ==
    LET closes == { i \in DOMAIN save.log : save.log[i].op = "close" }
        last(n) == CHOOSE i \in closes :
                      /\ save.log[i].name = n
                      /\ \A j \in closes : save.log[j].name = n => j <= i
    IN  [n \in { save.log[i].name : i \in closes } |->
            [text |-> save.log[last(n)].text, ok |-> TRUE]]

\* C19: a save and an export of the same notebook produce the same members -
\* names, document texts and manifest text - and what either produced loads
\* through the loader of the other.
C19_SameMembers ==
    save.pc = "done" /\ save.res.success /\ exported.res.success =>
        /\ Written = exported.members
        /\ nb.cells # << >> =>
              /\ ImportProjectFromZip(<< >>, Written).success
              /\ LoadProject(TRUE, << >>, exported.members).success
              /\ SameOutcome(ImportProjectFromZip(<< >>, Written),
                             LoadProject(TRUE, << >>, exported.members))

\* C19 witness: a notebook of two cells was saved and exported.
C19_Witness ==
    /\ Len(nb.cells) = 2 /\ nb.cells[1] # nb.cells[2]
    /\ save.pc = "done" /\ save.res.success
    /\ exported.res.success
    /\ DOMAIN exported.members = {FileName(0), FileName(1), ManifestName}

\* cell-<n as three digits>.svg for n < 1000, digit by digit.
DigitChar(d) == <<"0", "1", "2", "3", "4", "5", "6", "7", "8", "9">>[d + 1]
PaddedName(n) ==
    << "c", "e", "l", "l", "-",
       DigitChar(n \div 100), DigitChar((n \div 10) % 10), DigitChar(n % 10),
       ".", "s", "v", "g" >>

\* The k-th write a save run completed.
NthClose(k) ==
    save.log[CHOOSE i \in DOMAIN save.log :
                /\ save.log[i].op = "close"
                /\ Cardinality({ j \in 1..i : save.log[j].op = "close" }) = k]

\* C20: the manifest of a completed save has one entry per cell in cell
\* order; the entry of the cell at 0-based place i names cell-<i+1 as three
\* digits>.svg, carries the cell's height and recognizedCode, and names the
\* document the save wrote for that cell.
C20_ManifestMatchesCells ==
    save.pc = "done" /\ save.res.success =>
        LET entries == Written[ManifestName].text.value.cells[1] IN
        /\ Len(entries) = Len(nb.cells)
        /\ \A k \in DOMAIN nb.cells :
              /\ entries[k].file = PaddedName(k)
              /\ entries[k].height = nb.cells[k].height
              /\ entries[k].recognizedCode = nb.cells[k].recognizedCode
              /\ NthClose(k).name = entries[k].file
              /\ NthClose(k).text =
                    StrokesToSvg(nb.cells[k].strokes, nb.canvasWidth,
                                 Coalesce(nb.cells[k].height, SaveDefaultHeight), nb.strokeWidth)

\* C20 witness: a save of two different cells, one of them without height
\* and recognizedCode, completed.
C20_Witness ==
    /\ save.pc = "done" /\ save.res.success
    /\ Len(nb.cells) = 2
    /\ nb.cells[1].height = << >> /\ nb.cells[2].height # << >>
    /\ disk[ManifestName].text.kind = "json"

\* Every file the save wrote is in the directory as the save wrote it.
Intact == \A n \in DOMAIN Written : n \in DOMAIN disk /\ disk[n] = Written[n]

\* C21: loadProject on a directory a save of a notebook (of one cell at
\* least) has just written, all its files intact, succeeds with as many cells
\* as were saved, the k-th from the k-th document, with as many strokes as the
\* k-th saved cell (also none), its recognizedCode and its height (the 320 the
\* save wrote for a cell that has none).
C21_ReloadSameCells ==
    /\ opened.op = "load" /\ opened.granted
    /\ save.pc = "done" /\ save.res.success
    /\ nb.cells # << >>
    /\ Intact
    => /\ opened.res.success
       /\ Len(CellsOf(opened.res)) = Len(nb.cells)
       /\ \A k \in DOMAIN nb.cells :
             /\ CellsOf(opened.res)[k].src = PaddedName(k)
             /\ Len(CellsOf(opened.res)[k].strokes) = Len(nb.cells[k].strokes)
             /\ CellsOf(opened.res)[k].recognizedCode = nb.cells[k].recognizedCode
             /\ CellsOf(opened.res)[k].height =
                   <<Coalesce(nb.cells[k].height, SaveDefaultHeight)>>
       /\ opened.res.strokeWidth = <<nb.strokeWidth>>

\* C21 witness: a notebook of a cell with strokes, a height and recognized
\* code and a cell with none of them was saved and loaded again.
C21_Witness ==
    /\ opened.op = "load" /\ opened.res.success
    /\ save.pc = "done" /\ save.res.success /\ Intact
    /\ Len(nb.cells) = 2
    /\ nb.cells[1].strokes # << >> /\ nb.cells[1].recognizedCode # << >>
    /\ nb.cells[2].strokes = << >> /\ nb.cells[2].height = << >>
    /\ CellsOf(opened.res)[2].strokes = << >>

\* ------------------------------------------------------------- properties of lib/svg

\* |a - b|
Distance(a, b) == IF a < b THEN b - a ELSE a - b

\* The result of svgToStrokes.
Decoded == decoded[1]

\* The document is as strokesToSvg returned it.
Unchanged == svgText.kind = "svg" /\ svgEdits = 0

\* C22: for strokes of two points at least, svgToStrokes(strokesToSvg(...))
\* has as many strokes, each with as many points in the same order, every
\* coordinate within 0.01 of the original, and p = 0.5, t = 0 throughout.
C22_RoundTripWithinHundredth ==
    /\ decoded # << >> /\ Unchanged
    /\ \A k \in DOMAIN codecIn.strokes : Len(codecIn.strokes[k]) >= 2
    => /\ Len(Decoded.strokes) = Len(codecIn.strokes)
       /\ \A k \in DOMAIN codecIn.strokes :
             /\ Len(Decoded.strokes[k]) = Len(codecIn.strokes[k])
             /\ \A j \in DOMAIN codecIn.strokes[k] :
                   /\ Distance(Decoded.strokes[k][j].x, codecIn.strokes[k][j].x) <= 10
                   /\ Distance(Decoded.strokes[k][j].y, codecIn.strokes[k][j].y) <= 10
                   /\ Decoded.strokes[k][j].p = 500
                   /\ Decoded.strokes[k][j].t = 0

\* C22 witness: two strokes, one with points outside the canvas, came back
\* with a coordinate that the two decimals changed and with the pressure and
\* time of the original lost.
C22_Witness ==
    /\ decoded # << >> /\ Unchanged
    /\ codecIn.strokes = <<StrokeOut, StrokeLine>>
    /\ Decoded.strokes[1][1].x = -1500
    /\ Decoded.strokes[1][1].x # codecIn.strokes[1][1].x
    /\ Decoded.strokes[1][3].p # codecIn.strokes[1][3].p

\* C23: in a list of non-empty strokes, a stroke of one point is written as
\* a move-to and a line-to 0.1 further in x and y, and comes back as a
\* non-empty stroke at the same place of the list, beginning at the point.
C23_SinglePointKept ==
    /\ decoded # << >> /\ Unchanged
    /\ \A k \in DOMAIN codecIn.strokes : Len(codecIn.strokes[k]) >= 1
    => \A k \in DOMAIN codecIn.strokes :
          Len(codecIn.strokes[k]) = 1 =>
             /\ k \in DOMAIN svgText.paths
             /\ Len(svgText.paths[k]) = 2
             /\ svgText.paths[k][1].c = "M" /\ svgText.paths[k][2].c = "L"
             /\ ParseFloat(svgText.paths[k][2].x) - ParseFloat(svgText.paths[k][1].x) = 100
             /\ ParseFloat(svgText.paths[k][2].y) - ParseFloat(svgText.paths[k][1].y) = 100
             /\ k \in DOMAIN Decoded.strokes
             /\ Len(Decoded.strokes[k]) >= 1
             /\ Distance(Decoded.strokes[k][1].x, codecIn.strokes[k][1].x) <= 10
             /\ Distance(Decoded.strokes[k][1].y, codecIn.strokes[k][1].y) <= 10

\* C23 witness: a stroke of one point, second in its list, came back second.
C23_Witness ==
    /\ decoded # << >> /\ Unchanged
    /\ codecIn.strokes = <<StrokeLine, StrokeDot>>
    /\ Len(Decoded.strokes) = 2
    /\ Decoded.strokes[2][1].x = StrokeDot[1].x

\* A numeral that gives a usable dimension.
Yields(s) == ~IsNaN(s) /\ ParseFloat(s) # 0

\* C24: svgToStrokes returns the width and height of the viewBox where the
\* viewBox gives them, else those of the width and height attributes where
\* these give them, and 800 and 320 only where neither does.
C24_DimensionPriority ==
    decoded # << >> /\ svgText.kind = "svg" =>
        /\ Decoded.width =
              IF Len(svgText.viewBox) >= 4 /\ Yields(svgText.viewBox[3])
              THEN ParseFloat(svgText.viewBox[3]) \div 1000
              ELSE IF svgText.width # << >> /\ Yields(svgText.width[1])
              THEN ParseFloat(svgText.width[1]) \div 1000
              ELSE 800
        /\ Decoded.height =
              IF Len(svgText.viewBox) >= 4 /\ Yields(svgText.viewBox[4])
              THEN ParseFloat(svgText.viewBox[4]) \div 1000
              ELSE IF svgText.height # << >> /\ Yields(svgText.height[1])
              THEN ParseFloat(svgText.height[1]) \div 1000
              ELSE 320

\* The strokes of the path elements that have a d attribute and give a point.
GoodPaths ==
    SelectSeq([k \in DOMAIN svgText.paths |-> ParsePathD(svgText.paths[k])],
              LAMBDA st : st # << >>)

\* C25: svgToStrokes returns a result for every document; a path element
\* without d or without a point is passed over, the strokes of the others
\* come in document order, and no stroke returned is empty.
C25_BadPathSkipped ==
    decoded # << >> /\ svgText.kind = "svg" =>
        /\ Decoded.strokes = GoodPaths
        /\ \A k \in DOMAIN Decoded.strokes : Len(Decoded.strokes[k]) >= 1
        /\ Len(Decoded.strokes) =
              Cardinality({ k \in DOMAIN svgText.paths :
                               \E i \in DOMAIN svgText.paths[k] :
                                  /\ svgText.paths[k][i].c \in {"M", "L"}
                                  /\ svgText.paths[k][i].x # << >>
                                  /\ svgText.paths[k][i].y # << >> })

\* C25 witness: a document of two strokes with a path without points put
\* between them came back as the two strokes.
C25_Witness ==
    /\ decoded # << >> /\ svgEdits = 1
    /\ Len(svgText.paths) = 3
    /\ ParsePathD(svgText.paths[2]) = << >>
    /\ Decoded.strokes = <<ParsePathD(svgText.paths[1]), ParsePathD(svgText.paths[3])>>
    /\ Decoded.strokes[1] # Decoded.strokes[2]

\* ------------------------------------------------------------- properties of InkCanvas

\* A handler acted on the event of this step.
Handled(types) == nEvents' # nEvents /\ ev'.type \in types /\ ev'.handled

\* The stroke has a point less than 20 units from the position.
Within20(stroke, pos) ==
    \E j \in DOMAIN stroke :
        (stroke[j].x - pos[1]) * (stroke[j].x - pos[1])
          + (stroke[j].y - pos[2]) * (stroke[j].y - pos[2]) < 400

\* The strokes of the list that are kept when the eraser is at the position,
\* in the order of the list.
RECURSIVE Kept(_, _)
Kept(list, pos) ==
    IF list = << >> THEN << >>
    ELSE (IF Within20(Head(list), pos) THEN << >> ELSE <<Head(list)>>)
         \o Kept(Tail(list), pos)

\* C26: every stroke of the list the canvas reports is non-empty; pointer up
\* of a contact made with the pen appends one stroke with a point at the end
\* of the list, pointer cancel leaves the list as it is, a down or move with
\* the eraser takes out the strokes with a point within 20 units of its
\* position and keeps the others in their order, and nothing else changes
\* the list.
C26_StrokesNonEmpty ==
    [][ /\ \A k \in DOMAIN canvasStrokes' : Len(canvasStrokes'[k]) >= 1
        /\ Handled({"up"}) /\ tool = "pen" /\ downTool = "pen" =>
              /\ Len(canvasStrokes') = Len(canvasStrokes) + 1
              /\ SubSeq(canvasStrokes', 1, Len(canvasStrokes)) = canvasStrokes
              /\ Len(canvasStrokes'[Len(canvasStrokes')]) >= 1
        /\ Handled({"up"}) /\ tool = "pen" =>
              Len(canvasStrokes') <= Len(canvasStrokes) + 1
        /\ ev'.type = "cancel" => canvasStrokes' = canvasStrokes
        /\ Handled({"down", "move"}) /\ tool = "eraser" =>
              canvasStrokes' = Kept(canvasStrokes, ev'.pos)
        /\ canvasStrokes' # canvasStrokes =>
              \/ Handled({"up"}) /\ tool = "pen"
              \/ Handled({"down", "move"}) /\ tool = "eraser"
      ]_vars

\* C26 witness: a contact of two points was appended as the third stroke of
\* the list.
C26_Witness ==
    /\ ev.type = "up" /\ ev.handled /\ downTool = "pen" /\ tool = "pen"
    /\ Len(canvasStrokes) = 3
    /\ Len(canvasStrokes[3]) = 2

\* C27: an event of a pointer that is neither pen nor mouse is not acted on:
\* it leaves the list of strokes, the stroke in progress, the drawing flag
\* and the active pointer as they are, also while a pen contact is active.
C27_PalmRejected ==
    [][ nEvents' # nEvents /\ ev'.pointer.type \notin {"pen", "mouse"} =>
          /\ ~ev'.handled
          /\ UNCHANGED <<canvasStrokes, activeStroke, drawing, activePointerId>>
      ]_vars

\* C27 witness: a touch event came while the pen was down with a stroke in
\* progress, and the contact is still that of the pen.
C27_Witness ==
    /\ ev.pointer.type = "touch" /\ ev.type \in {"down", "move", "up"}
    /\ drawing /\ activePointerId = 2
    /\ Len(activeStroke) >= 1

\* C30: while a contact is active a pointer down changes nothing and a move
\* or up of another pointer id changes nothing; when no contact is active
\* the stroke in progress is empty.
C30_OneActivePointer ==
    [][ /\ drawing /\ nEvents' # nEvents /\ ev'.type = "down" =>
              /\ ~ev'.handled
              /\ UNCHANGED <<canvasStrokes, activeStroke, drawing, activePointerId>>
        /\ drawing /\ nEvents' # nEvents /\ ev'.type \in {"move", "up"}
              /\ ev'.pointer.id # activePointerId =>
              /\ ~ev'.handled
              /\ UNCHANGED <<canvasStrokes, activeStroke, drawing, activePointerId>>
        /\ drawing' <=> activePointerId' # 0
        /\ ~drawing' => activeStroke' = << >>
      ]_vars

\* ------------------------------------------------------------- properties of the pending map

\* The request was dispatched: postMessage took its message. The promise of
\* a request is rejected exactly when getWorker() or postMessage threw.
Dispatched(k) == promise[k].state # "rejected"

\* C28: the keys of the pending map are the tokens of the requests that were
\* dispatched and whose promise is not resolved, in every state: the entry
\* goes in the step that resolves the promise and none stays for a resolved
\* request. Violated through C3: a request whose dispatch threw keeps its
\* entry.
C28_PendingExact ==
    DOMAIN pending =
        { promise[k].token : k \in { j \in Calls : Dispatched(j) /\ promise[j].state # "resolved" } }

\* ------------------------------------------------------------- properties of a second save

\* What loadProject returns from the directory as the earlier save left it,
\* and from the directory after a complete save of the notebook.
PreviousProject == LoadProject(TRUE, << >>, PreviousDisk)
NewProject ==
    LoadProject(TRUE, << >>,
                WriteAll(PreviousDisk, SaveWrites(nb.cells, nb.strokeWidth, nb.canvasWidth)))

\* C29: after a save into a directory that holds a project has been
\* interrupted at any step, loadProject returns the project as it was before
\* or the project as the complete save would have left it. Violated: the
\* documents are replaced one by one before the manifest.
C29_AllOrNothing ==
    /\ opened.op = "load" /\ opened.granted
    /\ save.pc = "done" /\ ~save.res.success
    => \/ SameOutcome(opened.res, PreviousProject)
       \/ SameOutcome(opened.res, NewProject)

\* ------------------------------------------------------------- GroqSpec

GroqInit ==
    /\ BridgeInit
    /\ nb = [cells |-> << >>, strokeWidth |-> 3, canvasWidth |-> 800]
    /\ StorageIdle
    /\ OthersIdle

GroqNext == GroqStart \/ (\E r \in Responses : GroqAttempt(r)) \/ GroqWake

GroqSpec == GroqInit /\ [][GroqNext]_vars

\* ------------------------------------------------------------- properties of lib/groq

\* The attempts logged, in order.
AttemptsMade == SelectSeq(groq.log, LAMBDA x : x.op = "attempt")

\* C33: convertHandwritingToPython makes at most 3 attempts, numbered in
\* order; a successful attempt is the last thing it does and it has returned
\* then; the first failure is followed by a wait of 400 ms and the second by
\* one of 800 ms, and there is no other wait; the third failure is followed
\* by nothing, and the function has thrown the error of that attempt.
C33_ThreeAttempts ==
    /\ Len(AttemptsMade) <= 3
    /\ \A k \in DOMAIN AttemptsMade : AttemptsMade[k].n = k
    /\ \A i \in DOMAIN groq.log :
          LET x == groq.log[i] IN
          /\ x.op = "attempt" /\ x.thrown = << >> =>
                i = Len(groq.log) /\ groq.pc = "returned" /\ groq.returned # << >>
          /\ x.op = "attempt" /\ x.thrown # << >> /\ x.n < 3 =>
                /\ i + 1 \in DOMAIN groq.log
                /\ groq.log[i + 1] = [op |-> "sleep", ms |-> IF x.n = 1 THEN 400 ELSE 800]
          /\ x.op = "attempt" /\ x.thrown # << >> /\ x.n = 3 =>
                /\ i = Len(groq.log)
                /\ groq.pc = "thrown" /\ groq.thrown = x.thrown
          /\ x.op = "sleep" =>
                i > 1 /\ groq.log[i - 1].op = "attempt" /\ groq.log[i - 1].thrown # << >>
    /\ groq.pc = "returned" =>
          groq.log # << >> /\ groq.log[Len(groq.log)].thrown = << >>
    /\ groq.pc = "thrown" =>
          /\ Len(AttemptsMade) = 3
          /\ \A k \in 1..3 : AttemptsMade[k].thrown # << >>
    /\ groq.pc = "sleep" => groq.log[Len(groq.log)].op = "sleep"
    /\ groq.pc = "fetch" => groq.log = << >> \/ groq.log[Len(groq.log)].op = "sleep"

\* C33 witness: three attempts failed with three different errors, the waits
\* were 400 and 800 ms, and the function threw the third error.
C33_Witness ==
    /\ groq.pc = "thrown"
    /\ Len(groq.log) = 5
    /\ groq.log[2].ms = 400 /\ groq.log[4].ms = 800
    /\ groq.log[1].thrown # groq.log[3].thrown
    /\ groq.log[3].thrown # groq.log[5].thrown
    /\ groq.thrown = groq.log[5].thrown
    /\ groq.thrown[1].message = <<"Groq API error", 429, ":", "rate limit">>

\* ------------------------------------------------------------- ReducerSpec

MaxDispatch == 3

ReducerStarts ==
    { EmptyNotebook, [version |-> 1, cells |-> <<RanCell(1), NewCell(2), FailedCell(3)>>] }

ReducerInit ==
    /\ BridgeInit
    /\ nb = [cells |-> << >>, strokeWidth |-> 3, canvasWidth |-> 800]
    /\ StorageIdle
    /\ codecIn = [strokes |-> << >>, width |-> 800, height |-> 320, strokeWidth |-> 4]
    /\ CodecIdle
    /\ canvasStrokes = << >>
    /\ CanvasIdle
    /\ groq = GroqIdle
    /\ nbState \in ReducerStarts
    /\ nextId = Len(nbState.cells)
    /\ lastAction = NoAction
    /\ nDispatched = 0
    /\ localStorage = << >>
    /\ tasks = << >>
    /\ mounted = TRUE
    /\ saveTimer = << >>
    /\ cleared = {}

\* Any action is dispatched.
Apply ==
    /\ nDispatched < MaxDispatch
    /\ \E a \in Actions(1..(nextId + 1)) :
          /\ Dispatch(a, IF a.type = "load" THEN Len(a.notebook.cells) ELSE 0)
          /\ lastAction' = a
    /\ nDispatched' = nDispatched + 1
    /\ UNCHANGED <<pyVars, storageVars, codecVars, canvasVars, groq, localStorage, tasks,
                   mounted, saveTimer, cleared>>

ReducerNext == Apply

ReducerSpec == ReducerInit /\ [][ReducerNext]_vars

\* ------------------------------------------------------------- properties of the reducer

\* The ids of the cells, in order.
IdsOf(state) == [k \in DOMAIN state.cells |-> state.cells[k].id]

\* s without its element at place k
Without(s, k) == SubSeq(s, 1, k - 1) \o SubSeq(s, k + 1, Len(s))

\* The places of the cells with the id.
Places(state, id) == { k \in DOMAIN state.cells : state.cells[k].id = id }

\* C34: a dispatched per-cell action leaves the ids of the cells in their
\* order and every cell with another id as it was, and leaves the state as it
\* was when no cell has its id; deleteCell takes out the cell with the id and
\* nothing else; addCell puts one empty cell with a new id directly after the
\* cell afterId names, or at the end when afterId is absent or names no cell.
C34_ReducerFrame ==
    [][ nDispatched' # nDispatched =>
          LET a == lastAction' IN
          /\ a.type \in PerCell =>
                /\ IdsOf(nbState') = IdsOf(nbState)
                /\ \A k \in DOMAIN nbState.cells :
                      nbState.cells[k].id # a.id => nbState'.cells[k] = nbState.cells[k]
                /\ Places(nbState, a.id) = {} => nbState' = nbState
          /\ a.type = "deleteCell" =>
                /\ Places(nbState, a.id) = {} => nbState' = nbState
                /\ \A k \in Places(nbState, a.id) :
                      nbState'.cells = Without(nbState.cells, k)
          /\ a.type = "addCell" =>
                LET at == IF a.afterId = << >> \/ Places(nbState, a.afterId[1]) = {}
                          THEN Len(nbState.cells) + 1
                          ELSE 1 + CHOOSE k \in Places(nbState, a.afterId[1]) : TRUE
                IN  /\ Len(nbState'.cells) = Len(nbState.cells) + 1
                    /\ Without(nbState'.cells, at) = nbState.cells
                    /\ Places(nbState, nbState'.cells[at].id) = {}
                    /\ nbState'.cells[at] = NewCell(nbState'.cells[at].id)
          /\ a.type # "load" => nbState'.version = nbState.version
      ]_vars

\* C34 witness: a cell was added after the first of three cells and then
\* the output of the third, now the fourth, was set.
C34_Witness ==
    /\ lastAction.type = "setOutput" /\ lastAction.id = 3
    /\ IdsOf(nbState) = <<1, 4, 2, 3>>
    /\ nbState.cells[4].stdout = << <<"b">> >>
    /\ nbState.cells[1] = RanCell(1)

\* ------------------------------------------------------------- ClientSpec
\* The page: the component with its reducer, the bridge of lib/py, and a
\* worker that answers each posted request once.

MaxIds == 2

\* safeParseNotebook(raw): << >> for null
SafeParseNotebook(raw) ==
    IF raw = << >> THEN << >>
    ELSE IF ~JsonParse(raw[1]).ok THEN << >>
    ELSE IF JsonParse(raw[1]).value.version # 1 THEN << >>
    ELSE <<[version |-> 1, cells |-> JsonParse(raw[1]).value.cells]>>

\* The autosave effect after a render with the state: it sets the timer with
\* the new payload if loadedRef.current is set, and the old timer is cleared.
Render(state, loaded) == saveTimer' = IF loaded THEN <<JsonStringify(state)>> ELSE << >>

\* A dispatch and the render that follows it.
Step(a, made) ==
    /\ Dispatch(a, made)
    /\ IF nbState' # nbState THEN Render(nbState', mounted) ELSE UNCHANGED saveTimer

\* Two dispatches of one continuation and the render that follows them.
Step2(a, b) ==
    /\ nbState' = Reducer(Reducer(nbState, a), b)
    /\ UNCHANGED nextId
    /\ IF nbState' # nbState THEN Render(nbState', mounted) ELSE UNCHANGED saveTimer

\* The effects of the first render: the saved notebook, if it parses, is
\* loaded; loadedRef is set; the autosave timer is set.
Mount ==
    /\ ~mounted
    /\ mounted' = TRUE
    /\ IF SafeParseNotebook(localStorage) # << >>
       THEN Dispatch([type |-> "load", notebook |-> SafeParseNotebook(localStorage)[1]], 0)
       ELSE UNCHANGED <<nbState, nextId>>
    /\ Render(nbState', TRUE)
    /\ UNCHANGED <<pyVars, storageVars, codecVars, canvasVars, groq, localStorage, tasks, cleared,
                   nDispatched, lastAction>>

\* The timer of the autosave effect fires.
Autosave ==
    /\ saveTimer # << >>
    /\ localStorage' = saveTimer
    /\ saveTimer' = << >>
    /\ UNCHANGED <<pyVars, storageVars, codecVars, canvasVars, groq, nbState, nextId,
                   lastAction, nDispatched, tasks, mounted, cleared>>

\* The user reloads the page: the modules are loaded anew (emptyNotebook gets
\* a new id), the worker and what was in flight are gone, localStorage stays.
Reload ==
    /\ mounted
    /\ nextId < MaxIds
    /\ worker' = 0 /\ pending' = << >> /\ reqId' = 0 /\ promise' = << >>
    /\ inbox' = << >> /\ outbox' = << >>
    /\ pyodide' = 0 /\ py' = FreshPy /\ bufs' = << >> /\ handlers' = << >>
    /\ workersConstructed' = 0 /\ sentTo' = << >> /\ postTried' = {}
    /\ resolveLog' = << >> /\ nDelivered' = 0 /\ lastMsg' = NoMsg
    /\ loadCalls' = 0 /\ posted' = << >>
    /\ nbState' = [version |-> 1, cells |-> <<NewCell(nextId + 1)>>]
    /\ nextId' = nextId + 1
    /\ mounted' = FALSE
    /\ tasks' = << >>
    /\ saveTimer' = << >>
    /\ cleared' = {}
    /\ UNCHANGED <<storageVars, codecVars, canvasVars, groq, nDispatched, lastAction,
                   localStorage>>

\* The cell with the id, as the render that set up the handler saw it.
CellOf(id) == nbState.cells[FindIndex(nbState.cells, id)]
Shown == { nbState.cells[k].id : k \in DOMAIN nbState.cells }

\* The user draws in the cell: onChange of its canvas.
Draw(id) ==
    /\ mounted /\ id \in Shown
    /\ CellOf(id).strokes = << >>
    /\ Step([type |-> "setStrokes", id |-> id, strokes |-> <<StrokeDot>>], 0)
    /\ UNCHANGED <<pyVars, storageVars, codecVars, canvasVars, groq, nDispatched,
                   lastAction, localStorage, tasks,
                   mounted, cleared>>

\* Clear
ClickClear(id) ==
    /\ mounted /\ id \in Shown
    /\ Step([type |-> "clearCell", id |-> id], 0)
    /\ cleared' = cleared \cup {id}
    /\ UNCHANGED <<pyVars, storageVars, codecVars, canvasVars, groq, nDispatched,
                   lastAction, localStorage, tasks,
                   mounted>>

\* The add button after the cell
ClickAdd(id) ==
    /\ mounted /\ id \in Shown
    /\ nextId < MaxIds /\ Len(nbState.cells) < MaxCells
    /\ Step([type |-> "addCell", afterId |-> <<id>>], 0)
    /\ UNCHANGED <<pyVars, storageVars, codecVars, canvasVars, groq, nDispatched,
                   lastAction, localStorage, tasks,
                   mounted, cleared>>

\* Delete, shown while there is more than one cell
ClickDelete(id) ==
    /\ mounted /\ id \in Shown
    /\ Len(nbState.cells) > 1
    /\ Step([type |-> "deleteCell", id |-> id], 0)
    /\ UNCHANGED <<pyVars, storageVars, codecVars, canvasVars, groq, nDispatched,
                   lastAction, localStorage, tasks,
                   mounted, cleared>>

\* handleOpen or handleFileImport with a project of one cell: the loader
\* made the id of its cell.
Open ==
    /\ mounted
    /\ nextId < MaxIds
    /\ Step([type |-> "load", notebook |-> LoadedNotebook(nextId + 1)], 1)
    /\ UNCHANGED <<pyVars, storageVars, codecVars, canvasVars, groq, nDispatched,
                   lastAction, localStorage, tasks,
                   mounted, cleared>>

\* What convertHandwritingToPython comes to: the code it returns or the
\* error it throws.
Conversions ==
    { [returned |-> <<ExtractCode(<<Fence, LangLine, "x = 1", Space, Fence>>)>>,
       thrown |-> << >>],
      [returned |-> << >>, thrown |-> <<FinalError(Thrown([kind |-> "nocontent"]))>>] }

\* A call that has run to its end.
DoneTask == [kind |-> "done", cell |-> 0, pc |-> "done", k |-> 0]

\* convertCell(cellId) up to its await; the button is enabled while the key
\* is set, the cell has strokes and is not converting.
ClickConvert(id, pre) ==
    /\ mounted /\ id \in Shown
    /\ Len(tasks) < MaxReq
    /\ CellOf(id).strokes # << >> /\ CellOf(id).status # <<"converting">>
    /\ cleared' = cleared \ {id}
    /\ IF pre # "ok"
       THEN /\ Step([type |-> "setStatus", id |-> id, status |-> "error",
                      error |-> <<IF pre = "nokey" THEN <<"Missing Groq API key">>
                                  ELSE <<"Canvas not ready">> >>], 0)
            /\ UNCHANGED tasks
       ELSE /\ Step([type |-> "setStatus", id |-> id, status |-> "converting",
                      error |-> << >>], 0)
            /\ tasks' = Append(tasks, [kind |-> "convert", cell |-> id, pc |-> "await", k |-> 0])
    /\ UNCHANGED <<pyVars, storageVars, codecVars, canvasVars, groq, nDispatched,
                   lastAction, localStorage, mounted>>

\* convertCell after its await
ConvertSettles(t, c) ==
    /\ t \in DOMAIN tasks /\ tasks[t].kind = "convert" /\ tasks[t].pc = "await"
    /\ tasks' = [tasks EXCEPT ![t] = DoneTask]
    /\ IF c.thrown = << >>
       THEN Step2([type |-> "setRecognized", id |-> tasks[t].cell, code |-> c.returned[1]],
                  [type |-> "setStatus", id |-> tasks[t].cell, status |-> "idle",
                   error |-> << >>])
       ELSE Step([type |-> "setStatus", id |-> tasks[t].cell, status |-> "error",
                  error |-> <<IF c.thrown[1].isError THEN c.thrown[1].message
                              ELSE <<"Convert failed">> >>], 0)
    /\ UNCHANGED <<pyVars, storageVars, codecVars, canvasVars, groq, nDispatched,
                   lastAction, localStorage, mounted,
                   cleared>>

\* runCell(cellId) up to its await; the button is enabled while the cell has
\* recognized code and is not running.
ClickRun(id, ctorOk, postOk) ==
    /\ mounted /\ id \in Shown
    /\ Len(tasks) < MaxReq
    /\ CellOf(id).recognizedCode \notin { << >>, << << >> >> }
    /\ CellOf(id).runStatus # <<"running">>
    /\ cleared' = cleared \ {id}
    /\ Step([type |-> "setRunStatus", id |-> id, runStatus |-> "running"], 0)
    /\ RunPython(CellOf(id).recognizedCode[1], ctorOk, postOk)
    /\ tasks' = Append(tasks, [kind |-> "run", cell |-> id, pc |-> "await",
                               k |-> Len(promise) + 1])
    /\ UNCHANGED <<outbox, workerVars, storageVars, codecVars, canvasVars, groq, nDispatched,
                   lastAction, localStorage, mounted>>

\* The worker answers the oldest request it has.
Reply(out) ==
    /\ inbox # << >>
    /\ inbox' = Tail(inbox)
    /\ OnMessage([id |-> Head(inbox).id, stdout |-> out, stderr |-> << >>])
    /\ UNCHANGED <<outbox, workerVars, storageVars, codecVars, canvasVars, appVars>>

\* String(e) of the reason a promise of runPython was rejected with
ErrorString(reason) == <<"Error: ", reason>>

\* runCell after its await: the promise was resolved, or rejected.
RunSettles(t) ==
    /\ t \in DOMAIN tasks /\ tasks[t].kind = "run" /\ tasks[t].pc = "await"
    /\ promise[tasks[t].k].state # "pending"
    /\ tasks' = [tasks EXCEPT ![t] = DoneTask]
    /\ IF promise[tasks[t].k].state = "resolved"
       THEN Step([type |-> "setOutput", id |-> tasks[t].cell,
                  stdout |-> promise[tasks[t].k].stdout,
                  stderr |-> promise[tasks[t].k].stderr], 0)
       ELSE Step([type |-> "setOutput", id |-> tasks[t].cell, stdout |-> << >>,
                  stderr |-> ErrorString(promise[tasks[t].k].reason)], 0)
    /\ UNCHANGED <<pyVars, storageVars, codecVars, canvasVars, groq, nDispatched,
                   lastAction, localStorage, mounted,
                   cleared>>

ClientInit ==
    /\ BridgeInit
    /\ nb = [cells |-> << >>, strokeWidth |-> 3, canvasWidth |-> 800]
    /\ StorageIdle
    /\ OthersIdle

ClientNext ==
    \/ Mount
    \/ Autosave
    \/ Reload
    \/ Open
    \/ \E id \in 1..MaxIds : Draw(id) \/ ClickClear(id) \/ ClickAdd(id) \/ ClickDelete(id)
    \/ \E id \in 1..MaxIds, pre \in {"ok", "nokey"} : ClickConvert(id, pre)
    \/ \E t \in 1..MaxReq, c \in Conversions : ConvertSettles(t, c)
    \/ \E id \in 1..MaxIds, ctorOk \in BOOLEAN, postOk \in BOOLEAN : ClickRun(id, ctorOk, postOk)
    \/ \E out \in { <<"a">> } : Reply(out)
    \/ \E t \in 1..MaxReq : RunSettles(t)

ClientSpec == ClientInit /\ [][ClientNext]_vars

\* ------------------------------------------------------------- properties of the page

\* The calls of runCell for the cell that are at their await.
RunsOf(id) ==
    { t \in DOMAIN tasks : tasks[t].kind = "run" /\ tasks[t].cell = id /\ tasks[t].pc = "await" }

\* C31: a cell that was cleared, and on which the user has started no Convert
\* and no Run since, has no recognizedCode, no stdout and no stderr: a
\* conversion or an execution that was in flight when it was cleared writes
\* nothing into it.
C31_ClearedStaysEmpty ==
    \A k \in DOMAIN nbState.cells :
        nbState.cells[k].id \in cleared
            => /\ nbState.cells[k].recognizedCode = << >>
               /\ nbState.cells[k].stdout = << >>
               /\ nbState.cells[k].stderr = << >>

\* C32: every cell whose runStatus is "running" has a call of runCell at its
\* await, and while the promise of that call is pending its token is in the
\* pending map of the bridge; so a reply of the worker takes the cell out of
\* "running". It is to hold after runs, loads, autosaves and reloads.
C32_RunningHasRequest ==
    \A k \in DOMAIN nbState.cells :
        nbState.cells[k].runStatus = <<"running">>
            => /\ RunsOf(nbState.cells[k].id) # {}
               /\ \A t \in RunsOf(nbState.cells[k].id) :
                      promise[tasks[t].k].state = "pending"
                          => promise[tasks[t].k].token \in DOMAIN pending

====
